---- MODULE Spec2Model ----
(***************************************************************************)
(* A model of the FSAL indexing engine (src/fsal/fsdbmanager.py): the      *)
(* catalog, the directory walker, the prune / update / refresh routines,   *)
(* the task scheduler's single worker, the change-event queue and the      *)
(* client commands that touch them.                                        *)
(*                                                                         *)
(* Paths are sequences of components.  The empty string '' is <<>>, the    *)
(* root directory path '.' is <<".">>, 'd/b' is <<"d","b">>.  An absolute  *)
(* path is the sequence of its components from '/', so '/b1/a' is          *)
(* <<"b1","a">> and '/' is <<>>.                                           *)
(***************************************************************************)
EXTENDS Integers, Sequences, FiniteSets, TLC

VARIABLES
    disk,       \* the file system: node -> [kind, size]
    catalog,    \* the fsentries table: a set of rows
    nextId,     \* the store's SERIAL id counter
    events,     \* the change-event queue (FileSystemEventQueue), oldest first
    whitelist,  \* FSDBManager.whitelist
    queue,      \* TaskScheduler: jobs submitted and not yet started
    run,        \* the executions of refresh/prune/update: "worker" and "client"
    rm,         \* the client task executing remove()
    writers,    \* history: who wrote the catalog, and how
    hung,       \* the process spins in a loop that never yields
    calm,       \* history: full refreshes completed since the last disturbance
    ops,        \* client requests issued so far
    dchg,       \* out-of-band disk changes so far
    fails,      \* injected store failures so far
    stale,      \* history: Deleted events queued while their path had a row
    ret,        \* what the last client call returned
    asked,      \* history: the paths last passed to set_whitelist
    xfer,       \* history: the last transfer that went through
    client,     \* a client of the change events (FSAL.get_changes)
    sock,       \* a connection to the daemon's socket: both byte streams
    call,       \* a filter() call in progress
    notif,      \* history: the last batch of notifications and how it went
    walk        \* a call of yielding_checked_fnwalk and what it has done so far

\* the engine: the state of FSDBManager and of the disk
engine == <<disk, catalog, nextId, events, whitelist, queue, run, rm, writers,
            hung, calm, ops, dchg, fails, stale, ret, asked, xfer>>

\* what the engine's own steps leave alone
aux == <<client, sock, call, notif, walk>>

vars == <<engine, aux>>

----------------------------------------------------------------------------
(* Bounds of the model *)

MaxOps == 2
MaxDiskChanges == 1
MaxFails == 1
MaxFailAt == 2

----------------------------------------------------------------------------
(* Configuration *)

ROOT_DIR_PATH == <<".">>

PATH_LEN_LIMIT == 32767

\* config['fsal.basepaths'] (already absolute): /b1 and /b2
BasePaths == << <<"b1">>, <<"b2">> >>

BaseSet == {BasePaths[i] : i \in 1..Len(BasePaths)}

\* config['bundles.bundles_dir']
BundlesDir == <<"bundles">>

\* the blacklist regexes: a literal pattern matches every path whose string
\* starts with it (re.match anchors at position 0 only)
Blacklist == {<<"k">>, BundlesDir}

----------------------------------------------------------------------------
(* Strings and paths *)

Min(a, b) == IF a < b THEN a ELSE b

\* pairs <<a, b>> of component names where a is a proper string prefix of b
ProperPrefix == {<<".", "..">>, <<"a", "a\\b">>, <<"b1", "b1x">>}

CompPrefix(a, b) == a = b \/ <<a, b>> \in ProperPrefix

Dirname(p) == IF p = <<>> THEN <<>> ELSE SubSeq(p, 1, Len(p) - 1)

Basename(p) == IF p = <<>> THEN "" ELSE p[Len(p)]

\* str.startswith on the '/'-joined strings of two component sequences
StrStartsWith(s, prefix) ==
    \/ prefix = <<>>
    \/ /\ Len(s) >= Len(prefix)
       /\ SubSeq(s, 1, Len(prefix) - 1) = Dirname(prefix)
       /\ CompPrefix(Basename(prefix), s[Len(prefix)])

\* rel lies strictly beneath dir: rel.startswith(dir + '/')
Beneath(rel, dir) ==
    /\ Len(rel) > Len(dir)
    /\ SubSeq(rel, 1, Len(dir)) = dir

RECURSIVE Normalize(_)
\* os.path.normpath of an absolute path
Normalize(p) ==
    IF p = <<>> THEN <<>>
    ELSE LET h == Normalize(Dirname(p))
             c == Basename(p)
         IN  IF c = "." THEN h
             ELSE IF c = ".." THEN Dirname(h)
             ELSE Append(h, c)

RECURSIVE NormComps(_)
\* the components os.path.normpath keeps of a relative path
NormComps(p) ==
    IF p = <<>> THEN <<>>
    ELSE LET h == NormComps(Dirname(p))
             c == Basename(p)
         IN  IF c = "." \/ c = "" THEN h
             ELSE IF c = ".." /\ h # <<>> /\ Basename(h) # ".."  THEN Dirname(h)
             ELSE Append(h, c)

\* os.path.normpath of a relative path: '.' when nothing is left
NormRel(p) == IF NormComps(p) = <<>> THEN <<".">> ELSE NormComps(p)

\* os.path.abspath(os.path.join(base, rel)) for a relative rel
AbsJoin(base, rel) == Normalize(base \o rel)

RECURSIVE CommonLen(_, _)
CommonLen(a, b) ==
    IF a = <<>> \/ b = <<>> THEN 0
    ELSE IF Head(a) # Head(b) THEN 0
    ELSE 1 + CommonLen(Tail(a), Tail(b))

\* i is the length of the common prefix of path and start
RelFrom(path, start, i) ==
    IF i = Len(start) /\ i = Len(path) THEN <<".">>
    ELSE [k \in 1..(Len(start) - i) |-> ".."] \o SubSeq(path, i + 1, Len(path))

\* os.path.relpath(path, start), both absolute
RelPath(path, start) == RelFrom(path, start, CommonLen(path, start))

\* len(to_bytes(name)) of a component name.  "m" and "n" stand for two names
\* so long that, moved to the top of the last base path, the path of the one
\* has exactly PATH_LEN_LIMIT bytes and the path of the other one byte more
NameLen(c) ==
    CASE c = "m" -> PATH_LEN_LIMIT - 4
      [] c = "n" -> PATH_LEN_LIMIT - 3
      [] c = "bundles" -> 7
      [] c \in {"g.zip", "q.zip", "v.zip", "w.zip"} -> 5
      [] c = "a\\b" -> 3
      [] c \in {"b1", "b2", ".."} -> 2
      [] c = "b1x" -> 3
      [] OTHER -> 1

RECURSIVE ByteLen(_)
\* len(to_bytes(path)) of an absolute path: '/' and the name, per component
ByteLen(p) ==
    IF p = <<>> THEN 1
    ELSE IF Len(p) = 1 THEN 1 + NameLen(p[1])
    ELSE ByteLen(Dirname(p)) + 1 + NameLen(Basename(p))

HasDotDot(p) == \E i \in 1..Len(p) : p[i] = ".."

----------------------------------------------------------------------------
(* The file system *)

Roots == {<<"b1">>, <<"b2">>, <<"x">>}

RelNodes == {<<"a">>, <<"a\\b">>, <<"d">>, <<"d", "b">>, <<"k">>, <<"m">>, <<"n">>, <<"x">>,
             <<"e">>, <<"bundles">>, <<"bundles", "g.zip">>, <<"bundles", "q.zip">>,
             <<"bundles", "v.zip">>, <<"bundles", "w.zip">>}

\* a directory next to the base path /b1 whose name starts with its name
Beside == {<<"b1x">>, <<"b1x", "e">>}

\* every path that may exist on disk, '/' apart ('/' is always a directory)
Nodes == Roots \cup {r \o p : r \in Roots, p \in RelNodes} \cup Beside

\* the order in which scandir lists names
Names == <<"a", "a\\b", "b", "b1", "b1x", "b2", "bundles", "d", "e", "g.zip", "k", "m", "n",
          "q.zip", "v.zip", "w.zip", "x">>

\* where the model's symbolic links point: at the directory /x
LinkTarget == <<"x">>

Absent == [kind |-> "none", size |-> 0]

RawKind(dsk, p) ==
    IF p = <<>> THEN "dir"
    ELSE IF p \in Nodes THEN dsk[p].kind
    ELSE "none"

\* a path whose last component alone may be a symbolic link, followed
Followed(dsk, q) == IF RawKind(dsk, q) = "link" THEN LinkTarget ELSE q

RECURSIVE Resolve(_, _)
\* the path with every symbolic link in it followed
Resolve(dsk, p) ==
    IF p = <<>> THEN <<>>
    ELSE Followed(dsk, Append(Resolve(dsk, Dirname(p)), Basename(p)))

\* lstat: the kind of the entry itself
LKind(dsk, p) ==
    IF p = <<>> THEN "dir"
    ELSE RawKind(dsk, Append(Resolve(dsk, Dirname(p)), Basename(p)))

\* stat: the kind after following links
Kind(dsk, p) == RawKind(dsk, Resolve(dsk, p))

Exists(dsk, p) == Kind(dsk, p) # "none"      \* os.path.exists

IsDir(dsk, p) == Kind(dsk, p) = "dir"        \* os.path.isdir, entry.is_dir()

IsSymlink(dsk, p) == LKind(dsk, p) = "link"  \* entry.is_symlink()

RawSize(dsk, q) == IF q \in Nodes THEN dsk[q].size ELSE 0

\* os.stat(p).st_size
StatSize(dsk, p) == RawSize(dsk, Resolve(dsk, p))

\* scandir.scandir(p): the entries of directory p, as paths
Scandir(dsk, p) ==
    SelectSeq([i \in 1..Len(Names) |-> Append(p, Names[i])],
              LAMBDA e : LKind(dsk, e) # "none")

\* shutil.rmtree / os.remove / asyncfs.rm: p and everything beneath it goes
RemoveTree(dsk, p) ==
    [n \in Nodes |-> IF n = p \/ Beneath(n, p) THEN Absent ELSE dsk[n]]

----------------------------------------------------------------------------
(* Path validation, blacklist and whitelist *)

\* FSDBManager._is_blacklisted
IsBlacklisted(rel) == \E pat \in Blacklist : StrStartsWith(rel, pat)

\* FSDBManager._is_whitelisted
IsWhitelisted(wl, rel) ==
    \/ wl = <<>>
    \/ \E i \in 1..Len(wl) : Beneath(rel, wl[i]) \/ rel = wl[i]

\* the result of _validate_path, (valid, path), for a path already joined to
\* the base path and made relative again
ValidateFull(wl, base_path, full_path, rel) ==
    [valid |-> StrStartsWith(full_path, base_path) /\ IsWhitelisted(wl, rel),
     path  |-> rel]

ValidateAbs(wl, base_path, full_path) ==
    ValidateFull(wl, base_path, full_path, RelPath(full_path, base_path))

\* FSDBManager._validate_path: the path is joined to base_paths[0]
ValidatePath(wl, path) ==
    IF path = <<>> THEN [valid |-> FALSE, path |-> path]
    ELSE ValidateAbs(wl, BasePaths[1], AbsJoin(BasePaths[1], path))

----------------------------------------------------------------------------
(* The catalog *)

None == [id |-> -1, parent_id |-> -1, type |-> "none", size |-> 0,
         path |-> <<>>, base_path |-> <<>>]

\* FSDBManager.get_root_dir: the synthetic root, id 0, stat'ed under base_paths[0]
GetRootDir(dsk) ==
    IF Exists(dsk, BasePaths[1])
    THEN [id |-> 0, parent_id |-> 0, type |-> "dir", size |-> 0,
          path |-> ROOT_DIR_PATH, base_path |-> BasePaths[1]]
    ELSE None

\* fetchone: the first row of a result set (the store lists rows by id here)
FetchOne(rows) ==
    IF rows = {} THEN None
    ELSE CHOOSE r \in rows : \A o \in rows : r.id <= o.id

\* FSDBManager.get_fso once the path is validated: v is (valid, path)
SelectFso(cat, dsk, v) ==
    IF ~v.valid THEN None
    ELSE IF v.path = ROOT_DIR_PATH THEN GetRootDir(dsk)
    ELSE FetchOne({r \in cat : r.path = v.path})

\* FSDBManager.get_fso
GetFso(cat, wl, dsk, path) == SelectFso(cat, dsk, ValidatePath(wl, path))

\* fso if fso.is_dir() else None
DirOrNone(fso) == IF fso # None /\ fso.type = "dir" THEN fso ELSE None

\* FSDBManager._get_dir
GetDir(cat, wl, dsk, path) == DirOrNone(GetFso(cat, wl, dsk, path))

\* FSDBManager.exists (unindexed=False)
ExistsIndexed(cat, wl, dsk, path) == GetFso(cat, wl, dsk, path) # None

RECURSIVE RowSeq(_)
\* a result set as the sequence the store's cursor yields
RowSeq(rows) ==
    IF rows = {} THEN <<>>
    ELSE <<FetchOne(rows)>> \o RowSeq(rows \ {FetchOne(rows)})

----------------------------------------------------------------------------
(* Events *)

Event(kind, isdir, rel) == [kind |-> kind, is_dir |-> isdir, src |-> rel]

----------------------------------------------------------------------------
(* The store's write operations.  A write raises when it is the failAt-th    *)
(* write of the running step (an injected StoreError) and an insert raises   *)
(* when (base_path, path) is already present.  st is the state a routine     *)
(* threads through: cat, nextId, ev, cache, frontier, w (writes attempted),  *)
(* log (who wrote), ok (no exception so far), stale (the Deleted events that *)
(* were queued while the catalog still held a row for their path).           *)

Logged(st, ctx, op) == st.log \cup {[by |-> ctx.who, op |-> op]}

WriteFails(st, ctx) == st.w + 1 = ctx.failAt

\* db.Insert ... RETURNING id
StoreInsert(st, ctx, row) ==
    IF WriteFails(st, ctx)
       \/ \E r \in st.cat : r.base_path = row.base_path /\ r.path = row.path
    THEN [st EXCEPT !.ok = FALSE, !.w = @ + 1]
    ELSE [st EXCEPT !.cat = @ \cup {[row EXCEPT !.id = st.nextId]},
                    !.nextId = @ + 1,
                    !.w = @ + 1,
                    !.log = Logged(st, ctx, "insert")]

\* db.Update ... WHERE id = row.id
StoreUpdate(st, ctx, row) ==
    IF WriteFails(st, ctx)
       \/ \E r \in st.cat : r.id # row.id /\ r.base_path = row.base_path /\ r.path = row.path
    THEN [st EXCEPT !.ok = FALSE, !.w = @ + 1]
    ELSE [st EXCEPT !.cat = {r \in @ : r.id # row.id} \cup {row},
                    !.w = @ + 1,
                    !.log = Logged(st, ctx, "update")]

\* db.Delete over the rows in gone
StoreDelete(st, ctx, gone) ==
    IF WriteFails(st, ctx)
    THEN [st EXCEPT !.ok = FALSE, !.w = @ + 1]
    ELSE [st EXCEPT !.cat = @ \ gone,
                    !.w = @ + 1,
                    !.log = IF gone = {} THEN @ ELSE Logged(st, ctx, "delete")]

----------------------------------------------------------------------------
(* The indexer.  ctx is what a routine reads and does not change: who runs   *)
(* it, the whitelist, the disk, and which write (if any) is to fail.         *)

\* a walk predicate that leaves the blacklist test out
FnwalkCheckerNoBlacklist(dsk, base_path, path) ==
    /\ path \notin BaseSet
    /\ ~IsSymlink(dsk, path)

\* FSDBManager._fnwalk_checker
FnwalkChecker(dsk, base_path, path) ==
    /\ path \notin BaseSet
    /\ ~IsSymlink(dsk, path)
    /\ ~IsBlacklisted(RelPath(path, base_path))

\* the row File.from_stat / Directory.from_stat builds, not yet stored
Candidate(isdir, size, base_path, rel_path) ==
    [id |-> -1, parent_id |-> 0,
     type |-> IF isdir THEN "dir" ELSE "file",
     size |-> IF isdir THEN 0 ELSE size,
     path |-> rel_path, base_path |-> base_path]

\* File.from_stat / Directory.from_stat: the candidate row of a walked entry
FromStat(dsk, base_path, rel_path, path) ==
    Candidate(IsDir(dsk, path), StatSize(dsk, path), base_path, rel_path)

\* FSObject.changed: size, times or type differ (the size stands for the stat)
Changed(old, fso) == old.size # fso.size \/ old.type # fso.type

\* old_fso != fso
Differs(old, fso) ==
    Changed(old, fso) \/ old.path # fso.path \/ old.base_path # fso.base_path

\* parent_id or (parent.id if parent else 0)
ParentId(parent_id, parent_dir) ==
    IF parent_id # 0 THEN parent_id
    ELSE IF parent_dir # None THEN parent_dir.id ELSE 0

\* the id_cache with fso's id put in when fso is a directory and the write
\* went through
CacheDir(st1, fso, fso_id) ==
    IF st1.ok /\ fso.type = "dir"
    THEN [st1 EXCEPT !.cache = [q \in DOMAIN @ \cup {fso.path} |->
                                   IF q = fso.path THEN fso_id ELSE @[q]]]
    ELSE st1

\* the write of _update_fso_entry: Update when there is an old entry, Insert
\* (RETURNING id) when there is none
WriteEntry(st, ctx, row, old_entry) ==
    IF old_entry # None
    THEN CacheDir(StoreUpdate(st, ctx, [row EXCEPT !.id = old_entry.id]), row, old_entry.id)
    ELSE CacheDir(StoreInsert(st, ctx, row), row, st.nextId)

\* FSDBManager._update_fso_entry; the dir's id is put in id_cache by the caller
UpdateFsoEntry(st, ctx, fso, parent_id, old_entry) ==
    WriteEntry(st, ctx,
               [fso EXCEPT !.parent_id =
                   ParentId(parent_id,
                            GetDir(st.cat, ctx.wl, ctx.dsk, Dirname(fso.path)))],
               old_entry)

\* the event _update_db_for_basepath queues for an entry, "none" for no event
EventKind(old_fso, fso) ==
    IF old_fso = None THEN "Created"
    ELSE IF Changed(old_fso, fso) THEN "Modified"
    ELSE "none"

\* self.event_queue.add(event) of _update_db_for_basepath
Notified(st, kind, fso) ==
    IF kind = "none" THEN st
    ELSE [st EXCEPT !.ev = Append(@, Event(kind, fso.type = "dir", fso.path))]

\* the body of the loop of _update_db_for_basepath, entry and old row at hand:
\* the event is queued first, the store is written after
Consume(st, ctx, fso, old_fso, parent_id) ==
    IF old_fso = None \/ Differs(old_fso, fso)
    THEN UpdateFsoEntry(Notified(st, EventKind(old_fso, fso), fso), ctx, fso,
                        parent_id, old_fso)
    ELSE Notified(st, EventKind(old_fso, fso), fso)

\* id_cache[parent_path] if parent_path in id_cache else 0
CachedId(cache, parent_path) ==
    IF parent_path \in DOMAIN cache THEN cache[parent_path] ELSE 0

UpdateRel(st, ctx, base_path, path, rel_path) ==
    Consume(st, ctx,
            FromStat(ctx.dsk, base_path, rel_path, path),
            GetFso(st.cat, ctx.wl, ctx.dsk, rel_path),
            CachedId(st.cache, Dirname(rel_path)))

\* the body of the loop of FSDBManager._update_db_for_basepath for one entry
UpdateEntry(st, ctx, base_path, path) ==
    UpdateRel(st, ctx, base_path, path, RelPath(path, base_path))

\* yielding_checked_fnwalk on one scandir entry e: if fn passes it, a directory
\* is queued and the entry is yielded (and consumed)
WalkEntry(st, ctx, base_path, e) ==
    IF FnwalkChecker(ctx.dsk, base_path, e)
    THEN UpdateEntry(IF IsDir(ctx.dsk, e)
                     THEN [st EXCEPT !.frontier = Append(@, e)] ELSE st,
                     ctx, base_path, e)
    ELSE st

RECURSIVE ScanUpdate(_, _, _, _)
\* one directory of the walk (the for loop over scandir in
\* yielding_checked_fnwalk), each yielded entry consumed by UpdateEntry
ScanUpdate(st, ctx, base_path, entries) ==
    IF entries = <<>> \/ ~st.ok THEN st
    ELSE ScanUpdate(WalkEntry(st, ctx, base_path, Head(entries)), ctx, base_path,
                    Tail(entries))

\* an execution that is not running
Idle == [fn |-> "idle", src |-> <<>>, bases |-> <<>>, base |-> <<>>,
         frontier |-> <<>>, cache |-> <<>>, raised |-> FALSE]

\* an execution that has ended with an exception
Raised == [Idle EXCEPT !.raised = TRUE]

\* the end of an execution whose last call may have raised
Ended(st) == IF st.ok THEN Idle ELSE Raised

\* an execution asleep in gevent.sleep inside the walk of base_path
Asleep(st, fn, src, base_path, bases) ==
    [fn |-> fn, src |-> src, bases |-> bases, base |-> base_path,
     frontier |-> st.frontier, cache |-> st.cache, raised |-> FALSE]

\* one directory of the walk: scandir raises on what is no directory, and the
\* walker ends
ScanDir(st, ctx, base_path, dir) ==
    IF ~IsDir(ctx.dsk, dir) THEN [st EXCEPT !.ok = FALSE]
    ELSE ScanUpdate(st, ctx, base_path, Scandir(ctx.dsk, dir))

\* the root of a walk: yielded if fn passes it, consumed at once
WalkRoot(st, ctx, base_path, path) ==
    IF FnwalkChecker(ctx.dsk, base_path, path)
    THEN UpdateEntry(st, ctx, base_path, path) ELSE st

\* the walk of one base path from its root to the first gevent.sleep: st1 is
\* the state after the root was consumed
WalkFirst(st1, ctx, base_path, path) ==
    IF ~st1.ok THEN st1 ELSE ScanDir(st1, ctx, base_path, path)

RECURSIVE UpdateDb(_, _, _, _, _)
RECURSIVE ExtractBundles(_, _, _)
\* a walk that slept goes on asleep; a walk that ended (an exception in the
\* walker or in the consumer) hands over to the next base path at once
Slept(st2, ctx, fn, src, base_path, bases) ==
    IF st2.ok THEN [st |-> st2, run |-> Asleep(st2, fn, src, base_path, bases)]
    ELSE UpdateDb(st2, ctx, fn, src, bases)

\* FSDBManager._update_db from its next base path on, up to the walker's next
\* gevent.sleep: the walk root is checked and consumed, then its directory is
\* scanned.  A walk root that does not exist yields nothing.
UpdateDb(st, ctx, fn, src, bases) ==
    IF bases = <<>> THEN [st |-> st, run |-> Idle]
    ELSE Slept(IF ~Exists(ctx.dsk, AbsJoin(Head(bases), src))
               THEN [st EXCEPT !.ok = FALSE]
               ELSE WalkFirst(WalkRoot([st EXCEPT !.cache = <<>>, !.frontier = <<>>,
                                                  !.ok = TRUE],
                                       ctx, Head(bases), AbsJoin(Head(bases), src)),
                              ctx, Head(bases), AbsJoin(Head(bases), src)),
               ctx, fn, src, Head(bases), Tail(bases))

\* the walk after a gevent.sleep: the next directory of the LIFO queue, or,
\* the queue empty, the rest of _update_db
WalkOn(st, ctx, r) ==
    IF r.fn = "extract" THEN ExtractBundles(st, ctx, r.bases)
    ELSE
    Slept(IF r.frontier = <<>> THEN [st EXCEPT !.ok = FALSE]
          ELSE ScanDir([st EXCEPT !.frontier = Dirname(r.frontier),
                                  !.cache = r.cache, !.ok = TRUE],
                       ctx, r.base, r.frontier[Len(r.frontier)]),
          ctx, r.fn, r.src, r.base, r.bases)

\* event_queue.additems(evs), evs Deleted events
AddDeleted(st, evs) ==
    [st EXCEPT !.ev = @ \o evs,
               !.stale = @ \cup {evs[i] : i \in {j \in 1..Len(evs) :
                                      \E r \in st.cat : r.path = evs[j].src}}]

\* the events of FSDBManager._remove_paths, queued once the Delete is through
QueueDeleted(st1, ctx, seq) ==
    IF ~st1.ok THEN st1
    ELSE AddDeleted(st1, [i \in 1..Len(seq) |->
                 Event("Deleted",
                       IsDir(ctx.dsk, AbsJoin(seq[i].base_path, seq[i].path)),
                       seq[i].path)])

\* FSDBManager._remove_paths
RemovePaths(st, ctx, gone) ==
    IF gone = {} THEN st
    ELSE QueueDeleted(StoreDelete(st, ctx,
                                  {r \in st.cat : \E g \in gone : r.path = g.path}),
                      ctx, RowSeq(gone))

----------------------------------------------------------------------------
(* Bundles *)

\* config['bundles.bundles_exts'] is ['zip']: the names with that extension
HasBundleExt(name) == name \in {"g.zip", "q.zip", "v.zip", "w.zip"}

\* utils.common_ancestor of two paths: the components both start with
CommonAncestor(a, b) == SubSeq(a, 1, CommonLen(a, b))

RECURSIVE CommonAncestorOf(_)
\* utils.common_ancestor(*paths), paths not empty
CommonAncestorOf(paths) ==
    IF Len(paths) = 1 THEN paths[1]
    ELSE CommonAncestor(paths[1], CommonAncestorOf(Tail(paths)))

\* BundleExtracter.is_bundle(base_path, path)
is_bundle(dsk, base_path, path) ==
    /\ Kind(dsk, AbsJoin(base_path, path)) = "file"
    /\ CommonAncestor(path, BundlesDir) # <<>>
    /\ HasBundleExt(Basename(path))

\* FSDBManager._is_bundle: the first base path under which path is a bundle,
\* <<>> for (False, None)
IsBundle(dsk, path) ==
    IF \E i \in 1..Len(BasePaths) : is_bundle(dsk, BasePaths[i], path)
    THEN BasePaths[CHOOSE i \in 1..Len(BasePaths) :
                      /\ is_bundle(dsk, BasePaths[i], path)
                      /\ \A j \in 1..(i - 1) : ~is_bundle(dsk, BasePaths[j], path)]
    ELSE <<>>

\* what the archives hold: zfile.namelist() by the name of the archive; q.zip
\* is no zip file (PieZipFile raises BadZipFile), v.zip holds a path that
\* leaves the directory it is extracted to, w.zip one that leads into the
\* directory beside /b1 whose name starts with b1
BadZip(name) == name = "q.zip"

Namelist(name) ==
    IF name = "v.zip" THEN << <<"..", "e">> >>
    ELSE IF name = "w.zip" THEN << <<"..", "b1x", "e">> >>
    ELSE << <<"e">> >>

\* bundles.verify_paths
verify_paths(paths, extract_path) ==
    \A i \in 1..Len(paths) :
        StrStartsWith(AbsJoin(extract_path, paths[i]), extract_path)

\* zfile.extractall(extract_path): every member becomes a file at the path
\* verify_paths looked at, in directories that are made where there are none
ExtractAll(dsk, paths, extract_path) ==
    [n \in Nodes |->
       IF \E i \in 1..Len(paths) : n = AbsJoin(extract_path, paths[i])
       THEN [kind |-> "file", size |-> 1]
       ELSE IF /\ dsk[n].kind = "none"
               /\ \E i \in 1..Len(paths) : Beneath(AbsJoin(extract_path, paths[i]), n)
       THEN [kind |-> "dir", size |-> 0]
       ELSE dsk[n]]

\* bundles.extract_zip_bundle: (success, files) and the disk afterwards;
\* RuntimeError and BadZipFile are caught
extract_zip_bundle(dsk, bundle_path, extract_path) ==
    IF BadZip(Basename(bundle_path))
    THEN [success |-> FALSE, files |-> <<>>, dsk |-> dsk]
    ELSE IF ~verify_paths(Namelist(Basename(bundle_path)), extract_path)
    THEN [success |-> FALSE, files |-> Namelist(Basename(bundle_path)), dsk |-> dsk]
    ELSE [success |-> TRUE, files |-> Namelist(Basename(bundle_path)),
          dsk |-> ExtractAll(dsk, Namelist(Basename(bundle_path)), extract_path)]

\* FSDBManager._handle_bundle with BundleExtracter.extract_bundle: raised
\* when path is no bundle under base_path; else the common ancestor of the
\* extracted paths, the bundle removed, or <<>> (None) when the extraction
\* failed
HandleBundle(dsk, base_path, path) ==
    IF ~is_bundle(dsk, base_path, path)
    THEN [raised |-> TRUE, path |-> <<>>, dsk |-> dsk]
    ELSE IF extract_zip_bundle(dsk, AbsJoin(base_path, path), base_path).success
    THEN [raised |-> FALSE,
          path |-> CommonAncestorOf(
                       extract_zip_bundle(dsk, AbsJoin(base_path, path), base_path).files),
          dsk |-> [extract_zip_bundle(dsk, AbsJoin(base_path, path), base_path).dsk
                       EXCEPT ![AbsJoin(base_path, path)] = Absent]]
    ELSE [raised |-> FALSE, path |-> <<>>, dsk |-> dsk]

----------------------------------------------------------------------------
(* Pruning and refreshing *)

\* the rows _prune_db selects: path LIKE 'src_path%', base_path = base_path
PruneSelect(cat, src_path, base_path) ==
    {r \in cat :
       /\ src_path = <<>> \/ StrStartsWith(r.path, src_path)
       /\ base_path = <<>> \/ r.base_path = base_path}

\* the selected rows _prune_db collects for removal
PruneGone(dsk, sel) ==
    {r \in sel :
       \/ r.base_path \notin BaseSet
       \/ ~Exists(dsk, AbsJoin(r.base_path, r.path))
       \/ IsBlacklisted(r.path)}

\* FSDBManager._prune_db; src_path <<>> and base_path <<>> stand for None
PruneDb(st, ctx, src_path, base_path) ==
    RemovePaths(st, ctx, PruneGone(ctx.dsk, PruneSelect(st.cat, src_path, base_path)))

RECURSIVE ExtractEntries(_, _, _)
\* the loop of FSDBManager._extract_bundles over the entries the walker
\* scans in bundles_dir: bundle_checker lets the bundles through (no
\* directory, so the walk goes no deeper), _handle_bundle is called for each,
\* and what it raises is caught and logged
ExtractEntries(dsk, base_path, entries) ==
    IF entries = <<>> THEN dsk
    ELSE IF IsBundle(dsk, RelPath(Head(entries), base_path)) = <<>>
            \/ HandleBundle(dsk, base_path, RelPath(Head(entries), base_path)).raised
    THEN ExtractEntries(dsk, base_path, Tail(entries))
    ELSE ExtractEntries(HandleBundle(dsk, base_path,
                                     RelPath(Head(entries), base_path)).dsk,
                        base_path, Tail(entries))

\* FSDBManager._extract_bundles from its next base path on, up to the walker's
\* gevent.sleep after the scan of bundles_dir, and the _update_db() of
\* _refresh_db behind it.  A bundles_dir that is no directory is not scanned
\* and the walker does not sleep.
ExtractBundles(st, ctx, bases) ==
    IF bases = <<>>
    THEN UpdateDb(st, [ctx EXCEPT !.dsk = st.dsk], "refresh", ROOT_DIR_PATH, BasePaths)
    ELSE IF ~IsDir(st.dsk, AbsJoin(Head(bases), BundlesDir))
    THEN ExtractBundles(st, ctx, Tail(bases))
    ELSE [st |-> [st EXCEPT !.dsk = ExtractEntries(st.dsk, Head(bases),
                                     Scandir(st.dsk, AbsJoin(Head(bases), BundlesDir)))],
          run |-> Asleep([st EXCEPT !.cache = <<>>, !.frontier = <<>>], "extract",
                         ROOT_DIR_PATH, Head(bases), Tail(bases))]

\* a refresh that goes from pruning to the update at once
RefreshPrunedNoBundles(st1, ctx) ==
    IF ~st1.ok THEN [st |-> st1, run |-> Raised]
    ELSE UpdateDb(st1, ctx, "refresh", ROOT_DIR_PATH, BasePaths)

\* FSDBManager._refresh_db after its _prune_db, which may have raised
RefreshPruned(st1, ctx) ==
    IF ~st1.ok THEN [st |-> st1, run |-> Raised]
    ELSE ExtractBundles(st1, ctx, BasePaths)

\* FSDBManager._refresh_db up to the first gevent.sleep
RefreshDb(st, ctx) ==
    RefreshPruned(PruneDb(st, ctx, <<>>, <<>>), ctx)

\* a job of the scheduler, started: fn(*args) up to its first gevent.sleep
StartJob(st, ctx, job) ==
    IF job.fn = "refresh" THEN RefreshDb(st, ctx)
    ELSE IF job.fn = "prune"
    THEN [st |-> PruneDb(st, ctx, job.src, job.base),
          run |-> Ended(PruneDb(st, ctx, job.src, job.base))]
    ELSE UpdateDb(st, ctx, "update", job.src,
                  IF job.bases = <<>> THEN BasePaths ELSE job.bases)

----------------------------------------------------------------------------
(* remove() *)

\* sql_escape_path: '_' and '%' get the escape character in front; the escape
\* character itself is left as it is
SqlEscape(c) ==
    CASE c = "a_b" -> "a\\_b"
      [] c = "a%b" -> "a\\%b"
      [] OTHER -> c

sql_escape_path(path) == [i \in 1..Len(path) |-> SqlEscape(path[i])]

\* the one string a wildcard-free LIKE pattern with ESCAPE '\' matches: the
\* escape character makes the character after it literal and is itself dropped
LikeLiteral(c) ==
    CASE c = "a\\_b" -> "a_b"
      [] c = "a\\%b" -> "a%b"
      [] c = "a\\b" -> "ab"
      [] OTHER -> c

LikeTarget(pattern) == [i \in 1..Len(pattern) |-> LikeLiteral(pattern[i])]

\* the rows the Delete of FSDBManager._remove_fso matches
RemoveFsoRows(cat, fso) ==
    LET path == sql_escape_path(fso.path)
    IN  {r \in cat :
           \/ r.path = LikeTarget(path)
           \/ fso.type = "dir" /\ Beneath(r.path, LikeTarget(path))}

\* yielding_checked_fnwalk on one scandir entry e, the yielded entry turned
\* into its event by _remove_from_fs
RemoveEntry(acc, dsk, base_path, e) ==
    IF FnwalkChecker(dsk, base_path, e)
    THEN [evs |-> Append(acc.evs, Event("Deleted", IsDir(dsk, e), RelPath(e, base_path))),
          frontier |-> IF IsDir(dsk, e) THEN Append(acc.frontier, e) ELSE acc.frontier]
    ELSE acc

RECURSIVE ScanRemove(_, _, _, _)
\* one directory of the walk of FSDBManager._remove_from_fs: acc is
\* [evs, frontier]
ScanRemove(acc, dsk, base_path, entries) ==
    IF entries = <<>> THEN acc
    ELSE ScanRemove(RemoveEntry(acc, dsk, base_path, Head(entries)), dsk, base_path,
                    Tail(entries))

\* FSObject.path
FsoPath(fso) == AbsJoin(fso.base_path, fso.path)

\* remover(fso.path) succeeds: shutil.rmtree wants a real directory, os.remove
\* anything that is not a directory
RemoverOk(dsk, fso) ==
    IF fso.type = "dir" THEN LKind(dsk, FsoPath(fso)) = "dir"
    ELSE LKind(dsk, FsoPath(fso)) \in {"file", "link"}

NoRemove == [pc |-> "idle", fso |-> None, frontier |-> <<>>, evs |-> <<>>]

\* the tuple a client call returns: its length, its first element (success),
\* and, for consolidate, is_partial and whether copied and errors are non-empty
Return(op, ok, arity, partial, copied, errors, msg) ==
    [op |-> op, ok |-> ok, arity |-> arity, partial |-> partial,
     copied |-> copied, errors |-> errors, msg |-> msg]

\* (success, message)
Refused(op, msg) == Return(op, FALSE, 2, FALSE, FALSE, FALSE, msg)

\* (success, message) of remove, the message left out
Pair(op, ok) == Return(op, ok, 2, FALSE, FALSE, FALSE, "")

\* nothing returned that the model keeps: a call without a result, a call
\* that has not returned yet, or one that an exception ended
NoReturn == Return("none", FALSE, 0, FALSE, FALSE, FALSE, "")

----------------------------------------------------------------------------
(* Queries.  A stream of rows is the set of the rows it yields. *)

\* FSDBManager._fso_row_iterator with every row let through
FsoRowIteratorAll(wl, rows) == rows

\* FSDBManager._fso_row_iterator: the rows of a cursor that are whitelisted
FsoRowIterator(wl, rows) == {r \in rows : IsWhitelisted(wl, r.path)}

\* the rest of list_dir, d the result of _get_dir(path)
ListDirOf(cat, wl, d) ==
    IF d = None THEN [ok |-> FALSE, rows |-> {}]
    ELSE [ok |-> TRUE, rows |-> FsoRowIterator(wl, {r \in cat : r.parent_id = d.id})]

\* FSDBManager.list_dir(path): (ok, stream)
ListDir(cat, wl, dsk, path) == ListDirOf(cat, wl, GetDir(cat, wl, dsk, path))

\* the whitelist condition of list_descendants: path SIMILAR TO '(w1/|w2/)%'
\* OR path IN (w1, w2); the whitelisted names of the model hold no pattern
\* character
SqlWhitelisted(wl, p) ==
    wl = <<>> \/ \E i \in 1..Len(wl) : Beneath(p, wl[i]) \/ p = wl[i]

\* the rows the Select of list_descendants(path) finds: path LIKE 'path/%'
\* unless path is '.'
DescendantRows(cat, wl, path) ==
    {r \in cat : /\ SqlWhitelisted(wl, r.path)
                 /\ path # ROOT_DIR_PATH => Beneath(r.path, path)}

\* FSDBManager.list_descendants(path) and list_descendants(path, count=True):
\* (ok, count, stream), d the result of _get_dir(path)
ListDescendantsOf(cat, wl, path, d) ==
    IF d = None THEN [ok |-> FALSE, counted |-> {}, rows |-> {}]
    ELSE [ok |-> TRUE, counted |-> DescendantRows(cat, wl, path),
          rows |-> FsoRowIterator(wl, DescendantRows(cat, wl, path))]

ListDescendants(cat, wl, dsk, path) ==
    ListDescendantsOf(cat, wl, path, GetDir(cat, wl, dsk, path))

\* FSDBManager.filter(paths): the stream
Filter(cat, wl, paths) == FsoRowIterator(wl, {r \in cat : r.path \in paths})

\* the default of filter's batch_size
batch_size == 999

\* range(0, len(paths), batch_size): as many starts as batches
RangeLen(n, step) == (n + step - 1) \div step

\* a batching whose slices run one path into the next batch
BatchesOverlapping(paths, size) ==
    [k \in 1..RangeLen(Len(paths), size) |->
        [i |-> (k - 1) * size,
         batch |-> SubSeq(paths, (k - 1) * size + 1, Min(k * size + 1, Len(paths)))]]

\* paths[i:i + batch_size] for i in range(0, len(paths), batch_size): every
\* batch with the index i it starts at
Batches(paths, size) ==
    [k \in 1..RangeLen(Len(paths), size) |->
        [i |-> (k - 1) * size,
         batch |-> SubSeq(paths, (k - 1) * size + 1, Min(k * size, Len(paths)))]]

\* the Select with sqlin('path', batch): the rows whose path is in the batch
SqlIn(cat, batch) == {r \in cat : \E j \in 1..Len(batch) : batch[j] = r.path}

\* FSDBManager.filter(paths) for a list of paths: one Select per batch, the
\* results chained in the order of the batches and put through the whitelist
FilterBatches(cat, wl, batches) ==
    [batches |-> [k \in 1..Len(batches) |->
                     [i |-> batches[k].i, len |-> Len(batches[k].batch)]],
     rows |-> [k \in 1..Len(batches) |->
                  FsoRowIterator(wl, SqlIn(cat, batches[k].batch))]]

FilterList(cat, wl, paths) == FilterBatches(cat, wl, Batches(paths, batch_size))

\* name ILIKE '%word%': word is part of name
NameHas(name, word) ==
    \/ word = name
    \/ <<word, name>> \in ProperPrefix
    \/ word = "b" /\ name = "a\\b"

\* str.split() of the one query of two words
SplitWords(c) == IF c = "a d" THEN <<"a", "d">> ELSE <<c>>

\* query.split(): the empty query (and one of blanks only) has no word; a
\* query with a '/' in it is one word, written "/" here, that no name holds
QueryWords(query) ==
    CASE query = <<>> -> <<>>
      [] Len(query) = 1 -> SplitWords(query[1])
      [] OTHER -> <<"/">>

\* name LIKE pattern ESCAPE '\' for the pattern of one word: the word itself
\* when whole_words is set, else '%word%'
NameLike(name, word, whole_words) ==
    IF whole_words THEN name = LikeLiteral(word) ELSE NameHas(name, LikeLiteral(word))

\* a Select whose where clause joins the conditions with OR
WhereAny(cat, like_words, whole_words) ==
    {r \in cat : \E i \in 1..Len(like_words) :
                    NameLike(Basename(r.path), like_words[i], whole_words)}

\* the Select of FSDBManager.search: one condition per word is added to the
\* where clause with |=, and a Select without a condition has no WHERE
SearchSelect(cat, like_words, whole_words) ==
    IF like_words = <<>> THEN cat ELSE WhereAny(cat, like_words, whole_words)

\* FSDBManager.search(query, whole_words): the rows of list_dir(query) when
\* query is a directory, else the rows whose name is like one of the escaped
\* words
SearchOf(cat, wl, query, whole_words, listed) ==
    IF listed.ok THEN listed.rows
    ELSE FsoRowIterator(wl, SearchSelect(cat, sql_escape_path(QueryWords(query)),
                                         whole_words))

Search(cat, wl, dsk, query, whole_words) ==
    SearchOf(cat, wl, query, whole_words, ListDir(cat, wl, dsk, query))

\* FSDBManager._get_file
GetFile(cat, wl, dsk, path) ==
    IF GetFso(cat, wl, dsk, path).type = "file" THEN GetFso(cat, wl, dsk, path) ELSE None

\* FSDBManager.is_dir
IsDirIndexed(cat, wl, dsk, path) == GetDir(cat, wl, dsk, path) # None

\* FSDBManager.is_file
IsFileIndexed(cat, wl, dsk, path) == GetFile(cat, wl, dsk, path) # None

----------------------------------------------------------------------------
(* The socket *)

\* the byte '\0'
NUL == 0

\* data[:-1]
DropLast(data) == SubSeq(data, 1, Len(data) - 1)

\* '\0' in buff
HasNul(buff) == \E i \in 1..Len(buff) : buff[i] = NUL

\* FSAL._send_request: the bytes sent for message, a '\0' added to a message
\* that does not end with one
SendFrame(message) ==
    IF message[Len(message)] # NUL THEN Append(message, NUL) ELSE message

\* send_response: the bytes of response.get_xml_str().encode(OUT_ENCODING)
ResponseStr(document) == document

\* data.decode(IN_ENCODING): the ascii bytes as they are
DecodeOk(data) == \A i \in 1..Len(data) : data[i] < 128

----------------------------------------------------------------------------
(* The change events *)

\* FileSystemEventQueue.getitems(limit): up to limit of the oldest events,
\* none removed
GetItems(ev, limit) == SubSeq(ev, 1, Min(limit, Len(ev)))

\* FileSystemEventQueue.delitems(limit): up to limit of the oldest events are
\* dropped
DelItems(ev, limit) == SubSeq(ev, Min(limit, Len(ev)) + 1, Len(ev))

\* a get_changes that hands the limit on as it is not: everything is fetched
GetChangesAll(ev, limit) == GetItems(ev, Len(ev))

\* FSDBManager.get_changes(limit)
GetChanges(ev, limit) == GetItems(ev, limit)

\* FSDBManager.confirm_changes(limit)
ConfirmChanges(ev, limit) == DelItems(ev, limit)

----------------------------------------------------------------------------
(* The state machine *)

Job(fn, src, base, bases) == [fn |-> fn, src |-> src, base |-> base, bases |-> bases]

RefreshJob == Job("refresh", <<>>, <<>>, <<>>)

\* the routine state a step starts from
St == [cat |-> catalog, nextId |-> nextId, ev |-> events, cache |-> <<>>,
       frontier |-> <<>>, w |-> 0, log |-> writers, ok |-> TRUE, stale |-> stale,
       dsk |-> disk]

Ctx(who, failAt) == [who |-> who, wl |-> whitelist, dsk |-> disk, failAt |-> failAt]

\* which write of a step may be made to fail (0: none)
FailChoices == IF fails < MaxFails THEN 0..MaxFailAt ELSE {0}

Injected(st, failAt) == failAt # 0 /\ st.w >= failAt

Disturbed == [n |-> 0, clean |-> FALSE]

\* the populated disk the daemon is started on
Disk0 ==
    [n \in Nodes |->
       IF n \in Roots \/ n = <<"b1", "d">> THEN [kind |-> "dir", size |-> 0]
       ELSE IF n \in {<<"b1", "a">>, <<"b1", "d", "b">>, <<"b1", "k">>, <<"x", "a">>,
                       <<"x", "m">>, <<"x", "n">>}
       THEN [kind |-> "file", size |-> 1]
       ELSE Absent]

\* no transfer has gone through yet
NoTransfer == [dst |-> <<>>, dchg |-> 0, fails |-> 0]

\* a client that is not fetching changes
NoClient == [pc |-> "idle", limit |-> 0, got |-> <<>>]

\* no connection
NoSock == [cpc |-> "idle", spc |-> "accept", sync |-> FALSE, closed |-> FALSE,
           request |-> <<>>, c2s |-> <<>>, reqw |-> <<>>, sdata |-> <<>>, got |-> <<>>,
           executed |-> FALSE, response |-> <<>>, s2c |-> <<>>, respw |-> <<>>,
           cdata |-> <<>>, result |-> <<>>]

\* no filter() call
NoCall == [pc |-> "idle", paths |-> <<0, 0, <<>>>>, batches |-> <<>>, rows |-> <<>>]

\* FSDBManager.__init__ and start(): an empty store and queue, the first
\* refresh submitted
\* no walk is under way
NoWalk == [pc |-> "idle", fn |-> "", base |-> <<>>, root |-> <<>>, queue |-> <<>>,
          out |-> <<>>, calls |-> <<>>, scans |-> <<>>, ok |-> TRUE, n |-> 0]

\* no batch of notifications has come yet
NoBatch == [batch |-> <<>>, log |-> <<>>]

\* the daemon started on the disk dsk: FSDBManager.start() has submitted the
\* first refresh
Started(dsk) ==
    /\ disk = dsk
    /\ catalog = {}
    /\ nextId = 1
    /\ events = <<>>
    /\ whitelist = <<>>
    /\ queue = <<RefreshJob>>
    /\ run = [t \in {"worker", "client"} |-> Idle]
    /\ rm = NoRemove
    /\ writers = {}
    /\ hung = FALSE
    /\ calm = Disturbed
    /\ ops = 0
    /\ dchg = 0
    /\ fails = 0
    /\ stale = {}
    /\ ret = NoReturn
    /\ asked = <<>>
    /\ xfer = NoTransfer
    /\ client = NoClient
    /\ sock = NoSock
    /\ call = NoCall
    /\ notif = NoBatch
    /\ walk = NoWalk

Init == Started(Disk0)

\* the effect of a step of an execution t on the store, the event queue and
\* the disk
Apply(res, t, failAt) ==
    /\ disk' = res.st.dsk
    /\ catalog' = res.st.cat
    /\ nextId' = res.st.nextId
    /\ events' = res.st.ev
    /\ writers' = res.st.log
    /\ stale' = res.st.stale
    /\ run' = [run EXCEPT ![t] = res.run]
    /\ fails' = IF Injected(res.st, failAt) THEN fails + 1 ELSE fails

\* a worker that an exception of a job stops: no job is taken after it
WorkerReadyUnlessRaised ==
    /\ ~hung
    /\ run["worker"].fn = "idle" /\ ~run["worker"].raised
    /\ queue # <<>>

\* the worker waits for a job and one is there
WorkerReady ==
    /\ ~hung
    /\ run["worker"].fn = "idle"
    /\ queue # <<>>

\* the worker is inside a job, asleep in gevent.sleep
WorkerAsleep ==
    /\ ~hung
    /\ run["worker"].fn # "idle"

\* the worker of the TaskScheduler takes the next job and runs it up to its
\* first gevent.sleep (or to its end)
WorkerStart ==
    /\ WorkerReady
    /\ \E failAt \in FailChoices :
         \E res \in {StartJob(St, Ctx("worker", failAt), Head(queue))} :
             /\ Apply(res, "worker", failAt)
             /\ calm' = IF Head(queue).fn # "refresh" \/ Injected(res.st, failAt)
                        THEN Disturbed
                        ELSE IF res.run.fn = "idle"
                        THEN [n |-> IF calm.n = 0 THEN 1 ELSE 2, clean |-> FALSE]
                        ELSE [n |-> calm.n, clean |-> TRUE]
    /\ queue' = Tail(queue)
    /\ UNCHANGED <<whitelist, rm, hung, ops, dchg, ret, asked>>
    /\ UNCHANGED <<xfer, aux>>

\* the worker's job wakes from gevent.sleep and runs to the next one
WorkerStep ==
    /\ WorkerAsleep
    /\ \E failAt \in FailChoices :
         \E res \in {WalkOn(St, Ctx("worker", failAt), run["worker"])} :
             /\ Apply(res, "worker", failAt)
             /\ calm' = IF ~calm.clean \/ Injected(res.st, failAt) THEN Disturbed
                        ELSE IF res.run.fn = "idle"
                        THEN [n |-> IF calm.n = 0 THEN 1 ELSE 2, clean |-> FALSE]
                        ELSE calm
    /\ UNCHANGED <<whitelist, queue, rm, hung, ops, dchg, ret, asked>>
    /\ UNCHANGED <<xfer, aux>>

\* FSDBManager.refresh
Refresh ==
    /\ ~hung
    /\ ops < MaxOps
    /\ queue' = Append(queue, RefreshJob)
    /\ ops' = ops + 1
    /\ ret' = NoReturn
    /\ UNCHANGED <<disk, catalog, nextId, events, whitelist, run, rm, writers, stale,
                   hung, calm, dchg, fails, asked>>
    /\ UNCHANGED <<xfer, aux>>

\* the jobs FSDBManager.refresh_path schedules for a valid src_path
RefreshPathJobs(src_path, isdir) ==
    IF isdir
    THEN [i \in 1..Len(BasePaths) |-> Job("prune", src_path, BasePaths[i], <<>>)]
         \o <<Job("update", src_path, <<>>, BasePaths)>>
    ELSE <<Job("update", src_path, <<>>, <<>>)>>

\* FSDBManager.refresh_path(src_path); <<>> stands for no path given
RefreshPath(p) ==
    /\ ~hung
    /\ ops < MaxOps
    /\ \E v \in {IF p # <<>> THEN ValidatePath(whitelist, p)
                  ELSE [valid |-> TRUE, path |-> ROOT_DIR_PATH]} :
         queue' = IF v.valid
                  THEN queue \o RefreshPathJobs(v.path,
                                  GetDir(catalog, whitelist, disk, v.path) # None)
                  ELSE queue
    /\ ops' = ops + 1
    /\ ret' = NoReturn
    /\ UNCHANGED <<disk, catalog, nextId, events, whitelist, run, rm, writers, stale,
                   hung, calm, dchg, fails, asked>>
    /\ UNCHANGED <<xfer, aux>>

Loops == <<"#loop">>

\* os.path.dirname(path) or ROOT_DIR_PATH
ParentOf(path) == IF Dirname(path) = <<>> THEN ROOT_DIR_PATH ELSE Dirname(path)

RECURSIVE DeepestIndexedAncestor(_, _, _, _)
\* a walk upwards that returns the indexed ancestor it has found
DeepestIndexedAncestor(cat, wl, dsk, path) ==
    IF path = <<>> THEN ROOT_DIR_PATH
    ELSE IF ExistsIndexed(cat, wl, dsk, ParentOf(path)) THEN ParentOf(path)
    ELSE IF ParentOf(path) = path THEN Loops
    ELSE DeepestIndexedAncestor(cat, wl, dsk, ParentOf(path))

RECURSIVE DeepestIndexedParent(_, _, _, _)
\* FSDBManager._deepest_indexed_parent; Loops when the while loop never ends
DeepestIndexedParent(cat, wl, dsk, path) ==
    IF path = <<>> THEN ROOT_DIR_PATH
    ELSE IF ExistsIndexed(cat, wl, dsk, ParentOf(path)) THEN path
    ELSE IF ParentOf(path) = path THEN Loops
    ELSE DeepestIndexedParent(cat, wl, dsk, ParentOf(path))

\* FSDBManager._handle_notifications for a batch of one notification whose
\* path is no bundle (nothing lies under bundles_dir)
Notify(p) ==
    /\ ~hung
    /\ ops < MaxOps
    /\ \E path \in {DeepestIndexedParent(catalog, whitelist, disk, p)} :
           /\ hung' = (path = Loops)
           /\ queue' = IF path = Loops THEN queue
                       ELSE Append(queue, Job("update", path, <<>>, <<>>))
    /\ ops' = ops + 1
    /\ ret' = NoReturn
    /\ UNCHANGED <<disk, catalog, nextId, events, whitelist, run, rm, writers, stale,
                   calm, dchg, fails, asked>>
    /\ UNCHANGED <<xfer, aux>>

\* the body of the loop of FSDBManager._handle_notifications for the
\* notification n; base_path is the result of _is_bundle(path), and h that of
\* _handle_bundle for a bundle, the path and the disk as they are for
\* another path.  notification['path'] raises KeyError for a notification
\* without a path, which the except clause catches and logs; a bundle that
\* is not extracted is skipped; `return` leaves the batch.
HandleOne(acc, cat, wl, n, base_path, h) ==
    IF ~n.haspath
    THEN [acc EXCEPT !.log = Append(@, [kind |-> "raised", bundle |-> FALSE])]
    ELSE IF base_path # <<>> /\ h.path = <<>>
    THEN [acc EXCEPT !.log = Append(@, [kind |-> "skipped", bundle |-> TRUE])]
    ELSE IF DeepestIndexedParent(cat, wl, h.dsk, h.path) = Loops
    THEN [acc EXCEPT !.hung = TRUE, !.stop = TRUE, !.dsk = h.dsk]
    ELSE IF DeepestIndexedParent(cat, wl, h.dsk, h.path) = <<>>
    THEN [acc EXCEPT !.stop = TRUE, !.dsk = h.dsk]
    ELSE [acc EXCEPT
            !.dsk = h.dsk,
            !.queue = Append(@, Job("update",
                                    DeepestIndexedParent(cat, wl, h.dsk, h.path),
                                    <<>>, <<>>)),
            !.log = Append(@, [kind |-> "scheduled", bundle |-> base_path # <<>>])]

\* the notification's path as _handle_bundle leaves it: for a bundle what
\* _handle_bundle returns, for another path the path itself
Handled(dsk, n, base_path) ==
    IF ~n.haspath THEN [raised |-> TRUE, path |-> <<>>, dsk |-> dsk]
    ELSE IF base_path # <<>> THEN HandleBundle(dsk, base_path, n.path)
    ELSE [raised |-> FALSE, path |-> n.path, dsk |-> dsk]

RECURSIVE HandleBatch(_, _, _, _)
\* FSDBManager._handle_notifications: the loop over the batch
HandleBatch(acc, cat, wl, batch) ==
    IF batch = <<>> \/ acc.stop THEN acc
    ELSE HandleBatch(
             HandleOne(acc, cat, wl, Head(batch),
                       IF Head(batch).haspath THEN IsBundle(acc.dsk, Head(batch).path)
                       ELSE <<>>,
                       Handled(acc.dsk, Head(batch),
                               IF Head(batch).haspath
                               THEN IsBundle(acc.dsk, Head(batch).path) ELSE <<>>)),
             cat, wl, Tail(batch))

\* the notification listener calls FSDBManager._handle_notifications(batch)
HandleNotifications(batch) ==
    /\ ~hung
    /\ ops < MaxOps
    /\ \E acc \in {HandleBatch([dsk |-> disk, queue |-> queue, hung |-> FALSE,
                                 stop |-> FALSE, log |-> <<>>],
                                catalog, whitelist, batch)} :
           /\ disk' = acc.dsk
           /\ queue' = acc.queue
           /\ hung' = acc.hung
           /\ notif' = [batch |-> batch, log |-> acc.log]
           /\ calm' = IF acc.dsk # disk THEN Disturbed ELSE calm
    /\ ops' = ops + 1
    /\ ret' = NoReturn
    /\ UNCHANGED <<catalog, nextId, events, whitelist, run, rm, writers, stale,
                   dchg, fails, asked, xfer, client, sock, call, walk>>

\* FSDBManager.set_whitelist(paths): every path is stored normalized
SetWhitelist(paths) ==
    /\ ~hung
    /\ ops < MaxOps
    /\ paths # asked
    /\ whitelist' = [i \in 1..Len(paths) |-> NormRel(paths[i])]
    /\ asked' = paths
    /\ ret' = NoReturn
    /\ calm' = Disturbed
    /\ ops' = ops + 1
    /\ UNCHANGED <<disk, catalog, nextId, events, queue, run, rm, writers, stale,
                   hung, dchg, fails>>
    /\ UNCHANGED <<xfer, aux>>

\* the disk after remover(fso.path), which raises on the wrong kind of entry
Removed(dsk, fso) ==
    IF RemoverOk(dsk, fso) THEN RemoveTree(dsk, FsoPath(fso)) ELSE dsk

\* the store after remover and the Delete of _remove_fso; ok is FALSE when
\* either raised
RemoveRows(st, ctx, fso) ==
    IF RemoverOk(ctx.dsk, fso) THEN StoreDelete(st, ctx, RemoveFsoRows(st.cat, fso))
    ELSE [st EXCEPT !.ok = FALSE]

\* the end of _remove_fso: the events are queued, or, on an exception,
\* _refresh_db() is called in the client's task (dsk1 is the disk by then)
RemoveEnd(st1, ctx, dsk1, evs) ==
    IF st1.ok THEN [st |-> AddDeleted([st1 EXCEPT !.dsk = dsk1], evs), run |-> Idle]
    ELSE RefreshDb([st1 EXCEPT !.ok = TRUE, !.dsk = dsk1], [ctx EXCEPT !.dsk = dsk1])

\* the tail of FSDBManager._remove_fso, the walk of _remove_from_fs over:
\* remove returns (True, None), or (False, error) once its _refresh_db is over
RemoveFinish(fso, evs, failAt) ==
    \E st1 \in {RemoveRows(St, Ctx("remove", failAt), fso)} :
    \E res \in {RemoveEnd(st1, Ctx("remove", failAt), Removed(disk, fso), evs)} :
        /\ Apply(res, "client", failAt)
        /\ rm' = IF res.run.fn = "idle" THEN NoRemove
                 ELSE [NoRemove EXCEPT !.pc = "refresh"]
        /\ ret' = IF res.run.fn = "idle" THEN Pair("remove", st1.ok) ELSE NoReturn

\* the walk root of _remove_from_fs, yielded if fn passes it
RemoveRoot(dsk, fso) ==
    [evs |-> IF FnwalkChecker(dsk, fso.base_path, FsoPath(fso))
             THEN <<Event("Deleted", TRUE, RelPath(FsoPath(fso), fso.base_path))>>
             ELSE <<>>,
     frontier |-> <<>>]

\* FSDBManager.remove(path) up to the first gevent.sleep of its walk (or to
\* its end when the path is no directory on disk)
RemoveStart(p) ==
    /\ ~hung
    /\ ops < MaxOps
    /\ rm.pc = "idle"
    /\ ops' = ops + 1
    /\ calm' = Disturbed
    /\ \E fso \in {GetFso(catalog, whitelist, disk, p)} :
         IF fso = None
         THEN /\ ret' = Pair("remove", FALSE)
              /\ UNCHANGED <<disk, catalog, nextId, events, run, rm, writers, stale, fails>>
         ELSE IF IsDir(disk, FsoPath(fso))
         THEN /\ ret' = NoReturn
              /\ \E acc \in {ScanRemove(RemoveRoot(disk, fso), disk, fso.base_path,
                                        Scandir(disk, FsoPath(fso)))} :
                    rm' = [pc |-> "walk", fso |-> fso, frontier |-> acc.frontier,
                           evs |-> acc.evs]
              /\ UNCHANGED <<disk, catalog, nextId, events, run, writers, stale, fails>>
         ELSE \E failAt \in FailChoices :
                 RemoveFinish(fso,
                              <<Event("Deleted", FALSE,
                                      RelPath(FsoPath(fso), fso.base_path))>>,
                              failAt)
    /\ UNCHANGED <<whitelist, queue, hung, dchg, asked>>
    /\ UNCHANGED <<xfer, aux>>

\* remove() wakes from gevent.sleep: the next directory of its walk, or, the
\* walk over, the rest of _remove_fso
RemoveStep ==
    /\ ~hung
    /\ rm.pc = "walk"
    /\ calm' = Disturbed
    /\ IF rm.frontier # <<>> /\ IsDir(disk, rm.frontier[Len(rm.frontier)])
       THEN /\ \E acc \in {ScanRemove([evs |-> rm.evs, frontier |-> Dirname(rm.frontier)],
                                      disk, rm.fso.base_path,
                                      Scandir(disk, rm.frontier[Len(rm.frontier)]))} :
                  rm' = [rm EXCEPT !.frontier = acc.frontier, !.evs = acc.evs]
            /\ UNCHANGED <<disk, catalog, nextId, events, run, writers, stale, fails, ret>>
       ELSE \E failAt \in FailChoices : RemoveFinish(rm.fso, rm.evs, failAt)
    /\ UNCHANGED <<whitelist, queue, hung, ops, dchg, asked>>
    /\ UNCHANGED <<xfer, aux>>

\* the _refresh_db() that a failed remove runs in the client's task wakes
\* from gevent.sleep
RemoveRefreshStep ==
    /\ ~hung
    /\ rm.pc = "refresh"
    /\ calm' = Disturbed
    /\ \E failAt \in FailChoices :
         \E res \in {WalkOn(St, Ctx("remove", failAt), run["client"])} :
             /\ Apply(res, "client", failAt)
             /\ rm' = IF res.run.fn = "idle" THEN NoRemove ELSE rm
             /\ ret' = IF res.run.fn = "idle" THEN Pair("remove", FALSE) ELSE ret
    /\ UNCHANGED <<whitelist, queue, hung, ops, dchg, asked>>
    /\ UNCHANGED <<xfer, aux>>

\* the path of n moved from beneath src to beneath dst
Rebase(n, src, dst) == dst \o SubSeq(n, Len(src) + 1, Len(n))

\* the disk after the tree at src is copied onto dst (merge: what is there
\* and not overwritten stays), and, with move, taken away from src
CopyTree(dsk, src, dst, move) ==
    [n \in Nodes |->
       IF (n = dst \/ Beneath(n, dst)) /\ Rebase(n, dst, src) \in Nodes
          /\ dsk[Rebase(n, dst, src)].kind # "none"
       THEN dsk[Rebase(n, dst, src)]
       ELSE IF move /\ (n = src \/ Beneath(n, src)) THEN Absent
       ELSE dsk[n]]

RECURSIVE WalkAll(_, _)
\* the entries of one directory, then the walk of the rest of the LIFO queue
\* with the directories among them put on it
WalkMore(dsk, rest, entries) ==
    entries \o WalkAll(dsk, rest \o SelectSeq(entries, LAMBDA e : IsDir(dsk, e)))

\* yielding_checked_fnwalk(path, lambda p: True) below the root: every entry
\* beneath the directories of todo (a LIFO queue), in the walker's order
WalkAll(dsk, todo) ==
    IF todo = <<>> THEN <<>>
    ELSE WalkMore(dsk, Dirname(todo), Scandir(dsk, todo[Len(todo)]))

\* FSDBManager._validate_external_path
ValidateExternalPath(path) == [valid |-> path # <<>>, path |-> Normalize(path)]

\* real_dst: inside abs_dest when that is a directory
RealDst(dsk, abs_dest, name) ==
    IF IsDir(dsk, abs_dest) THEN Append(abs_dest, name) ELSE abs_dest

\* the source test of _validate_transfer: s is (src_valid, abs_src)
SourceOk(cat, wl, dsk, src, s) ==
    s.valid /\ Exists(dsk, s.path) /\ ~ExistsIndexed(cat, wl, dsk, src)

\* the destination test of _validate_transfer: d is (dest_valid, dest)
DestOk(dsk, d, name) ==
    /\ d.valid
    /\ ~(/\ IsDir(dsk, AbsJoin(BasePaths[Len(BasePaths)], d.path))
         /\ Exists(dsk, Append(AbsJoin(BasePaths[Len(BasePaths)], d.path), name)))

\* the entries yielding_checked_fnwalk(abs_src, lambda p: True) yields: the
\* root, then everything beneath it
WalkedFrom(dsk, abs_src) ==
    IF IsDir(dsk, abs_src) THEN <<abs_src>> \o WalkAll(dsk, <<abs_src>>)
    ELSE <<abs_src>>

\* a length check that already refuses a path of PATH_LEN_LIMIT bytes
OverLimitInclusive(dest_path) == ByteLen(dest_path) >= PATH_LEN_LIMIT

\* len(to_bytes(dest_path)) > PATH_LEN_LIMIT
OverLimit(dest_path) == ByteLen(dest_path) > PATH_LEN_LIMIT

\* the loop of _validate_transfer: some entry of the source tree has a
\* destination path over the limit
TooLong(entries, abs_src, real_dst) ==
    \E i \in 1..Len(entries) : OverLimit(Rebase(entries[i], abs_src, real_dst))

\* a _validate_transfer that leaves the test of dest_valid out
TransferMsgAnyDest(cat, wl, dsk, src, s, d) ==
    IF ~SourceOk(cat, wl, dsk, src, s) THEN "Invalid transfer source directory"
    ELSE IF /\ IsDir(dsk, AbsJoin(BasePaths[Len(BasePaths)], d.path))
            /\ Exists(dsk, Append(AbsJoin(BasePaths[Len(BasePaths)], d.path),
                                  Basename(s.path)))
    THEN "Destination path already exists"
    ELSE IF TooLong(WalkedFrom(dsk, s.path), s.path,
                    RealDst(dsk, AbsJoin(BasePaths[Len(BasePaths)], d.path),
                            Basename(s.path)))
    THEN "exceeds path length limit"
    ELSE ""

\* the message of FSDBManager._validate_transfer, "" for (True, None): s is
\* (src_valid, abs_src), d is (dest_valid, dest)
TransferMsg(cat, wl, dsk, src, s, d) ==
    IF ~SourceOk(cat, wl, dsk, src, s) THEN "Invalid transfer source directory"
    ELSE IF ~d.valid THEN "Invalid transfer destination directory"
    ELSE IF ~DestOk(dsk, d, Basename(s.path)) THEN "Destination path already exists"
    ELSE IF TooLong(WalkedFrom(dsk, s.path), s.path,
                    RealDst(dsk, AbsJoin(BasePaths[Len(BasePaths)], d.path),
                            Basename(s.path)))
    THEN "exceeds path length limit"
    ELSE ""

\* FSDBManager._validate_transfer: (valid, msg)
TransferCheck(cat, wl, dsk, src, dest) ==
    TransferMsg(cat, wl, dsk, src, ValidateExternalPath(src), ValidatePath(wl, dest))

ValidateTransfer(cat, wl, dsk, src, dest) == TransferCheck(cat, wl, dsk, src, dest) = ""

\* asyncfs.move(abs_src, abs_dest) goes through: it raises when real_dst is
\* there already
MoveOk(dsk, real_dst) == ~Exists(dsk, real_dst)

\* the disk after asyncfs.move(abs_src, abs_dest)
Moved(dsk, src, real_dst) ==
    IF MoveOk(dsk, real_dst) THEN CopyTree(dsk, src, real_dst, TRUE) ELSE dsk

\* a transfer that keeps success as it was when the move raised
TransferReturnKept(moved) == Pair("transfer", TRUE)

\* what transfer returns after the move: (True, None), or (False, str(e))
\* when the move raised
TransferReturn(moved) ==
    IF moved THEN Pair("transfer", TRUE) ELSE Refused("transfer", "move failed")

\* FSDBManager.transfer(src, dest): src an absolute path outside the base
\* paths, dest relative
Transfer(src, dest) ==
    /\ ~hung
    /\ ops < MaxOps
    /\ ops' = ops + 1
    /\ IF ~ValidateTransfer(catalog, whitelist, disk, src, dest)
       THEN /\ ret' = Refused("transfer", TransferCheck(catalog, whitelist, disk, src, dest))
            /\ UNCHANGED <<disk, queue, hung, calm, xfer>>
       ELSE \E real_dst \in {RealDst(disk, AbsJoin(BasePaths[Len(BasePaths)], dest),
                                     Basename(Normalize(src)))} :
            \E dsk1 \in {Moved(disk, Normalize(src), real_dst)} :
            \E path \in {DeepestIndexedParent(catalog, whitelist, dsk1,
                            RelPath(real_dst, BasePaths[Len(BasePaths)]))} :
                /\ disk' = dsk1
                /\ hung' = (path = Loops)
                /\ queue' = IF path = Loops THEN queue
                            ELSE Append(queue, Job("update", path, <<>>, <<>>))
                /\ ret' = IF path = Loops THEN NoReturn
                          ELSE TransferReturn(MoveOk(disk, real_dst))
                /\ xfer' = IF path # Loops /\ MoveOk(disk, real_dst)
                           THEN [dst |-> real_dst, dchg |-> dchg, fails |-> fails]
                           ELSE xfer
                /\ calm' = Disturbed
    /\ UNCHANGED <<catalog, nextId, events, whitelist, run, rm, writers, stale, dchg, fails,
                   asked>>
    /\ UNCHANGED aux

\* every copied path paired with every source, in the order of the two loops
CopiedPairs(copied, sources) ==
    [k \in 1..(Len(copied) * Len(sources)) |->
       [path |-> copied[((k - 1) \div Len(sources)) + 1],
        src  |-> sources[((k - 1) % Len(sources)) + 1]]]

\* os.path.relpath(path, src), which normalizes src
RelOf(kept) == [k \in 1..Len(kept) |-> RelPath(kept[k].path, Normalize(kept[k].src))]

\* the relative paths consolidate computes from the copied absolute paths:
\* relpath against every source, kept unless the relative path still contains
\* the absolute one (it does when path and source share no leading component)
RelCopied(copied, sources) ==
    RelOf(SelectSeq(CopiedPairs(copied, sources),
                    LAMBDA q : CommonLen(q.path, Normalize(q.src)) # 0))

\* the UPDATE of _update_base_paths over the rows hit
Rehome(st, ctx, hit, base_path) ==
    IF WriteFails(st, ctx)
       \/ \E r \in st.cat \ hit, m \in hit : r.base_path = base_path /\ r.path = m.path
    THEN [st EXCEPT !.ok = FALSE, !.w = @ + 1]
    ELSE [st EXCEPT !.cat = (@ \ hit) \cup {[r EXCEPT !.base_path = base_path] : r \in hit},
                    !.w = @ + 1,
                    !.log = IF hit = {} THEN @ ELSE Logged(st, ctx, "rehome")]

\* an _update_base_paths that deletes the rows it should re-home
UpdateBasePathsDropping(st, ctx, srcs, base_path, for_paths) ==
    StoreDelete(st, ctx,
                {r \in st.cat :
                   /\ \E i \in 1..Len(srcs) : r.base_path = srcs[i]
                   /\ for_paths = <<>> \/ \E i \in 1..Len(for_paths) : r.path = for_paths[i]})

\* FSDBManager._update_base_paths
UpdateBasePaths(st, ctx, srcs, base_path, for_paths) ==
    Rehome(st, ctx,
           {r \in st.cat :
              /\ \E i \in 1..Len(srcs) : r.base_path = srcs[i]
              /\ for_paths = <<>> \/ \E i \in 1..Len(for_paths) : r.path = for_paths[i]},
           base_path)

RECURSIVE ConsolidateJobs(_, _, _)
\* the jobs consolidate submits: for every copied path a prune per source,
\* then an update under dest
ConsolidateJobs(rel_copied, sources, dest) ==
    IF rel_copied = <<>> THEN <<>>
    ELSE [i \in 1..Len(sources) |-> Job("prune", Head(rel_copied), sources[i], <<>>)]
         \o <<Job("update", Head(rel_copied), <<>>, <<dest>>)>>
         \o ConsolidateJobs(Tail(rel_copied), sources, dest)

RECURSIVE CopyAll(_, _, _, _, _, _)
\* one round of the first loop of consolidate: msg is the message of
\* _validate_transfer for the source at hand; a source that is not valid
\* ends the call with (False, msg)
CopyOne(acc, msg, cat, wl, sources, dest_arg, dest) ==
    IF msg # "" THEN [acc EXCEPT !.valid = FALSE, !.msg = msg]
    ELSE CopyAll([dsk |-> CopyTree(acc.dsk, Normalize(Head(sources)), dest, FALSE),
                  copied |-> acc.copied \o WalkAll(acc.dsk, <<Normalize(Head(sources))>>),
                  valid |-> TRUE, msg |-> ""],
                 cat, wl, Tail(sources), dest_arg, dest)

\* the first loop of consolidate: each source in turn is validated and then
\* copied, asyncfs.copytree(src, dest, merge=True, copied=copied); acc is
\* [dsk, copied, valid, msg]
CopyAll(acc, cat, wl, sources, dest_arg, dest) ==
    IF sources = <<>> THEN acc
    ELSE CopyOne(acc, TransferCheck(cat, wl, acc.dsk, Head(sources), dest_arg),
                 cat, wl, sources, dest_arg, dest)

RECURSIVE RmAll(_, _, _)
\* asyncfs.rm of every copied path that is no source and still exists
RmAll(dsk, copied, sources) ==
    IF copied = <<>> THEN dsk
    ELSE RmAll(IF (\A i \in 1..Len(sources) : Head(copied) # sources[i])
                  /\ Exists(dsk, Head(copied))
               THEN RemoveTree(dsk, Head(copied)) ELSE dsk,
               Tail(copied), sources)

\* what consolidate returns at its end: (success, is_partial, msg)
ConsolidateReturn(copied, errors) ==
    Return("consolidate", ~errors, 3, errors /\ copied, copied, errors,
           IF errors THEN "Errors" ELSE "All files copied successfully")

\* FSDBManager.consolidate(sources, dest), sources and dest absolute
\* directories; no copy fails
Consolidate(sources, dest) ==
    /\ ~hung
    /\ ops < MaxOps
    /\ ops' = ops + 1
    /\ \E failAt \in FailChoices :
       \E cp \in {CopyAll([dsk |-> disk, copied |-> <<>>, valid |-> TRUE, msg |-> ""],
                          catalog, whitelist, sources, dest, Normalize(dest))} :
         IF ~cp.valid
         THEN /\ disk' = cp.dsk
              /\ calm' = IF cp.dsk = disk THEN calm ELSE Disturbed
              /\ ret' = Refused("consolidate", cp.msg)
              /\ UNCHANGED <<catalog, writers, queue, fails>>
         ELSE \E rel_copied \in {RelCopied(cp.copied, sources)} :
              \E st1 \in {UpdateBasePaths(St, Ctx("consolidate", failAt), sources,
                                          Normalize(dest), rel_copied)} :
                  /\ disk' = RmAll(cp.dsk, cp.copied, sources)
                  /\ catalog' = st1.cat
                  /\ writers' = st1.log
                  /\ queue' = IF st1.ok
                              THEN queue \o ConsolidateJobs(rel_copied, sources,
                                                            Normalize(dest))
                              ELSE queue
                  /\ fails' = IF Injected(st1, failAt) THEN fails + 1 ELSE fails
                  /\ ret' = IF st1.ok THEN ConsolidateReturn(cp.copied # <<>>, FALSE)
                            ELSE NoReturn
                  /\ calm' = Disturbed
    /\ UNCHANGED <<nextId, events, whitelist, run, rm, hung, dchg, stale, asked>>
    /\ UNCHANGED <<xfer, aux>>

\* something outside the daemon changes the disk: node n becomes e
DiskSet(n, e) ==
    /\ dchg < MaxDiskChanges
    /\ disk[n] # e
    /\ IsDir(disk, Dirname(n)) /\ LKind(disk, Dirname(n)) = "dir"
    /\ disk' = [m \in Nodes |->
                  IF m = n THEN e
                  ELSE IF Beneath(m, n) /\ e.kind # "dir" THEN Absent
                  ELSE disk[m]]
    /\ dchg' = dchg + 1
    /\ calm' = Disturbed
    /\ UNCHANGED <<catalog, nextId, events, whitelist, queue, run, rm, writers, stale,
                   hung, ops, fails, ret, asked>>
    /\ UNCHANGED <<xfer, aux>>

\* the engine but for the change-event queue
aroundEvents == <<disk, catalog, nextId, whitelist, queue, run, rm, writers, hung,
                  calm, ops, dchg, fails, stale, ret, asked, xfer>>

\* FSAL.get_changes(limit), first half: the request get_changes is sent and
\* the events of the response are handed to the caller one by one
ClientFetch(limit) ==
    /\ client.pc = "idle"
    /\ client' = [pc |-> "fetched", limit |-> limit, got |-> GetChanges(events, limit)]
    /\ UNCHANGED <<engine, sock, call, notif, walk>>

\* FSAL.get_changes(limit), second half: the caller has drawn the last event
\* and confirm_changes(limit) is sent
ClientConfirm ==
    /\ client.pc = "fetched"
    /\ events' = ConfirmChanges(events, client.limit)
    /\ client' = [client EXCEPT !.pc = "idle"]
    /\ UNCHANGED <<aroundEvents, sock, call, notif, walk>>

\* FSAL._send_request, up to sendall: the client connects and writes the
\* request; read_socket_stream follows
ClientSend(message, is_synchronous) ==
    /\ sock.cpc = "idle"
    /\ sock' = [sock EXCEPT !.cpc = "reading", !.sync = is_synchronous,
                            !.request = message,
                            !.c2s = SendFrame(message), !.reqw = SendFrame(message)]
    /\ UNCHANGED <<engine, client, call, notif, walk>>

\* read_request, the first sock.recv(buff_size), which hands over n of the
\* bytes that have arrived: data = buff; the loop is left when the chunk has
\* the '\0' in it, and data[:-1] is decoded
ServerRecv(n) ==
    /\ sock.spc = "accept"
    /\ n \in 1..Len(sock.c2s)
    /\ sock' = [sock EXCEPT
                  !.c2s = SubSeq(sock.c2s, n + 1, Len(sock.c2s)),
                  !.sdata = SubSeq(sock.c2s, 1, n),
                  !.got = IF HasNul(SubSeq(sock.c2s, 1, n))
                          THEN DropLast(SubSeq(sock.c2s, 1, n)) ELSE <<>>,
                  !.spc = IF ~HasNul(SubSeq(sock.c2s, 1, n)) THEN "loop"
                          ELSE IF DecodeOk(DropLast(SubSeq(sock.c2s, 1, n)))
                               THEN "read" ELSE "raised",
                  !.closed = HasNul(SubSeq(sock.c2s, 1, n))
                             /\ ~DecodeOk(DropLast(SubSeq(sock.c2s, 1, n)))]
    /\ UNCHANGED <<engine, client, call, notif, walk>>

\* read_request, the body of the loop: the next sock.recv(buff_size), and
\* data += buffer, which raises TypeError (buffer is the builtin type); the
\* connection's task ends and the server closes the socket
ServerRecvMore(n) ==
    /\ sock.spc = "loop"
    /\ n \in 1..Len(sock.c2s)
    /\ sock' = [sock EXCEPT !.c2s = SubSeq(sock.c2s, n + 1, Len(sock.c2s)),
                            !.spc = "raised", !.closed = TRUE]
    /\ UNCHANGED <<engine, client, call, notif, walk>>

\* request_handler after read_request: the handler of the command is made;
\* for a synchronous handler do_command() runs and send_response writes the
\* document it answers with; sock.close()
ServerDispatch(document) ==
    /\ sock.spc = "read"
    /\ sock' = [sock EXCEPT
                  !.spc = "closed", !.closed = TRUE,
                  !.executed = sock.sync,
                  !.response = IF sock.sync THEN document ELSE <<>>,
                  !.s2c = IF sock.sync THEN ResponseStr(document) ELSE <<>>,
                  !.respw = IF sock.sync THEN ResponseStr(document) ELSE <<>>]
    /\ UNCHANGED <<engine, client, call, notif, walk>>

\* read_socket_stream, one sock.recv(buff_size), which hands over n of the
\* bytes that have arrived, or none at the end of a closed stream: the
\* chunk is added to data, and with an empty chunk or one that has the
\* '\0' the loop is left and data[:-1] returned
ClientRecv(n) ==
    /\ sock.cpc = "reading"
    /\ IF sock.s2c = <<>> THEN n = 0 /\ sock.closed ELSE n \in 1..Len(sock.s2c)
    /\ sock' = [sock EXCEPT
                  !.s2c = SubSeq(sock.s2c, n + 1, Len(sock.s2c)),
                  !.cdata = sock.cdata \o SubSeq(sock.s2c, 1, n),
                  !.cpc = IF n = 0 \/ HasNul(SubSeq(sock.s2c, 1, n))
                          THEN "returned" ELSE "reading",
                  !.result = IF n = 0 \/ HasNul(SubSeq(sock.s2c, 1, n))
                             THEN DropLast(sock.cdata \o SubSeq(sock.s2c, 1, n))
                             ELSE <<>>]
    /\ UNCHANGED <<engine, client, call, notif, walk>>

\* the client is done with the connection; the next request opens a new one
ClientClose ==
    /\ sock.cpc = "returned"
    /\ sock' = NoSock
    /\ UNCHANGED <<engine, client, call, notif, walk>>

\* the list of n paths that holds path p at position pos and, if n is twice
\* pos at least, once more at 2 * pos, and the path of no row everywhere else
PathList(n, pos, p) ==
    [j \in 1..n |-> IF j = pos \/ j = 2 * pos THEN p ELSE <<"k", "k">>]

\* a client calls filter(paths) with the list PathList(n, pos, p)
FilterCall(n, pos, p) ==
    /\ ~hung
    /\ call.pc = "idle"
    /\ \E ans \in {FilterList(catalog, whitelist, PathList(n, pos, p))} :
          call' = [pc |-> "returned", paths |-> <<n, pos, p>>,
                   batches |-> ans.batches, rows |-> ans.rows]
    /\ UNCHANGED <<engine, client, sock, notif, walk>>

\* the client has drawn the stream to its end
FilterDone ==
    /\ call.pc = "returned"
    /\ call' = NoCall
    /\ UNCHANGED <<engine, client, sock, notif, walk>>

----------------------------------------------------------------------------
(* The specification: the daemon, its clients and the disk around it *)

File(size) == [kind |-> "file", size |-> size]

Dir == [kind |-> "dir", size |-> 0]

Link == [kind |-> "link", size |-> 0]

RefreshPathArgs == {<<>>, <<"d", "b">>, <<"k">>}

NotifyArgs == {<<"d", "b">>, <<"..">>}

WhitelistArgs == {<<>>, << <<"d">> >>, << <<"d", ".">> >>}

RemoveArgs == {<<"a">>, <<"d">>, <<"a\\b">>}

TransferArgs ==
    {<< <<"x", "a">>, <<".">> >>,     \* a file into the top of the last base path
     << <<"x", "a">>, <<"d">> >>,     \* onto or into d
     << <<"x", "a">>, <<"..">> >>,    \* a destination that escapes the base path
     << <<>>, <<".">> >>,             \* no source
     << <<"x">>, <<".">> >>,          \* a directory: /x/n comes out one byte too long
     << <<"x", "m">>, <<".">> >>,     \* a destination path of PATH_LEN_LIMIT bytes
     << <<"x", "n">>, <<".">> >>}     \* one byte more

ConsolidateArgs ==
    {<< << <<"b2">> >>, <<"x">> >>,
     << << <<"b2">> >>, <<"b1">> >>,
     << << <<"b2", ".">> >>, <<"x">> >>}    \* the source written '/b2/.'

DiskEdits ==
    {<<"b1", "a">>} \X {Absent, Link, File(2)}
    \cup {<<"b1", "d">>} \X {Absent, Dir}
    \cup {<<"b1", "d", "b">>} \X {Absent, File(1)}
    \cup {<<"b1", "a\\b">>} \X {File(1), Dir}
    \cup {<<"b1", "x">>} \X {Dir}
    \cup {<<"b2", "a">>} \X {File(2)}
    \cup {<<"b2", "d">>} \X {File(1)}

Next ==
    \/ WorkerStart
    \/ WorkerStep
    \/ Refresh
    \/ \E p \in RefreshPathArgs : RefreshPath(p)
    \/ \E p \in NotifyArgs : Notify(p)
    \/ \E wl \in WhitelistArgs : SetWhitelist(wl)
    \/ \E p \in RemoveArgs : RemoveStart(p)
    \/ RemoveStep
    \/ RemoveRefreshStep
    \/ \E a \in TransferArgs : Transfer(a[1], a[2])
    \/ \E a \in ConsolidateArgs : Consolidate(a[1], a[2])
    \/ \E d \in DiskEdits : DiskSet(d[1], d[2])

Spec == Init /\ [][Next]_vars

\* the scheduler's worker under requests that submit jobs, with the disk
\* changing and the store failing meanwhile; the worker is scheduled fairly
NextSched ==
    \/ WorkerStart
    \/ WorkerStep
    \/ Refresh
    \/ \E p \in RefreshPathArgs : RefreshPath(p)
    \/ \E d \in DiskEdits : DiskSet(d[1], d[2])

\* weak fairness of action A, WF_vars(A), where the state predicate enabled
\* is ENABLED <<A>>_vars: A is taken in the end if it stays enabled
SpecSched ==
    /\ Init /\ [][NextSched]_vars
    /\ ([]<>~WorkerReady \/ []<><<WorkerStart>>_vars)
    /\ ([]<>~WorkerAsleep \/ []<><<WorkerStep>>_vars)

\* the predicate fn of a walk w on the entry e: `lambda p: True` of
\* get_path_size and _validate_transfer, or _fnwalk_checker bound to w.base
WalkFn(dsk, w, e) ==
    IF w.fn = "all" THEN TRUE ELSE FnwalkChecker(dsk, w.base, e)

\* which call of fn in a step may raise (0: none): _fnwalk_checker asks the
\* entry whether it is a symbolic link, which may raise OSError;
\* `lambda p: True` raises nothing
WalkFails(fn) == IF fn = "all" THEN {0} ELSE 0..MaxFailAt

\* a walker that puts every directory on its queue, passed by fn or not
WalkDescendsAll(dsk, passed, e) == IsDir(dsk, e)

\* yielding_checked_fnwalk: `if fn(entry): if entry.is_dir(): queue.put`
WalkDescends(dsk, passed, e) == passed /\ IsDir(dsk, e)

\* yielding_checked_fnwalk on one scandir entry e; the failAt-th call of fn
\* in this step raises, which ends the generator
WalkVisit(w, dsk, e, failAt) ==
    IF ~w.ok THEN w
    ELSE IF w.n + 1 = failAt
    THEN [w EXCEPT !.ok = FALSE, !.n = @ + 1,
                   !.calls = Append(@, [path |-> e, res |-> "raised"])]
    ELSE IF WalkFn(dsk, w, e)
    THEN [w EXCEPT !.n = @ + 1,
                   !.calls = Append(@, [path |-> e, res |-> "passed"]),
                   !.queue = IF WalkDescends(dsk, TRUE, e) THEN Append(@, e) ELSE @,
                   !.out = Append(@, e)]
    ELSE [w EXCEPT !.n = @ + 1,
                   !.calls = Append(@, [path |-> e, res |-> "refused"]),
                   !.queue = IF WalkDescends(dsk, FALSE, e) THEN Append(@, e) ELSE @]

RECURSIVE WalkVisitAll(_, _, _, _)
\* `for entry in scandir.scandir(path)`
WalkVisitAll(w, dsk, entries, failAt) ==
    IF entries = <<>> THEN w
    ELSE WalkVisitAll(WalkVisit(w, dsk, Head(entries), failAt), dsk, Tail(entries),
                      failAt)

\* a walker that sleeps and goes on after what fn raised
WalkScannedOn(w) == [w EXCEPT !.pc = "asleep"]

\* the walk after the directory on top of its queue was scanned: asleep in
\* gevent.sleep, or ended by what fn raised
WalkScanned(w) == [w EXCEPT !.pc = IF w.ok THEN "asleep" ELSE "done"]

\* one turn of the while loop of yielding_checked_fnwalk: queue.get raises
\* Empty and the loop is left, or the directory got is scanned (scandir
\* raises on what is no directory any more) and the walker sleeps
WalkTurn(w, dsk, failAt) ==
    IF w.queue = <<>> THEN [w EXCEPT !.pc = "done"]
    ELSE IF ~IsDir(dsk, w.queue[Len(w.queue)])
    THEN [w EXCEPT !.pc = "done", !.ok = FALSE, !.queue = Dirname(@),
                   !.scans = Append(@, [path |-> w.queue[Len(w.queue)],
                                        res |-> "raised"])]
    ELSE WalkScanned(
             WalkVisitAll([w EXCEPT !.queue = Dirname(@),
                                    !.scans = Append(@, [path |-> w.queue[Len(w.queue)],
                                                         res |-> "listed"])],
                          dsk, Scandir(dsk, w.queue[Len(w.queue)]), failAt))

\* the root of the walk: fn is called on it and it is yielded if it passes;
\* it is put on the queue if it is a directory, passed or not
WalkRootEntry(w, dsk, failAt) ==
    IF failAt = 1
    THEN [w EXCEPT !.pc = "done", !.ok = FALSE, !.n = 1,
                   !.calls = <<[path |-> w.root, res |-> "raised"]>>]
    ELSE [w EXCEPT !.n = 1,
                   !.calls = <<[path |-> w.root,
                                res |-> IF WalkFn(dsk, w, w.root) THEN "passed"
                                        ELSE "refused"]>>,
                   !.out = IF WalkFn(dsk, w, w.root) THEN <<w.root>> ELSE <<>>,
                   !.queue = IF IsDir(dsk, w.root) THEN <<w.root>> ELSE <<>>]

\* the call counter of a step, set back when the step is over
StepOver(w) == [w EXCEPT !.n = 0]

\* yielding_checked_fnwalk(path, fn) is called and consumed up to its first
\* gevent.sleep: the root, then the first turn of the loop
WalkBegin(fn, base_path, path) ==
    /\ walk.pc # "asleep"
    /\ \E failAt \in WalkFails(fn) :
         \E w \in {WalkRootEntry([NoWalk EXCEPT !.pc = "asleep", !.fn = fn,
                                                !.base = base_path, !.root = path],
                                  disk, failAt)} :
             walk' = IF w.ok THEN StepOver(WalkTurn(w, disk, failAt)) ELSE StepOver(w)
    /\ UNCHANGED <<engine, client, sock, call, notif>>

\* the walker sleeps in gevent.sleep
WalkAsleep == walk.pc = "asleep"

\* the walker wakes from gevent.sleep and takes the next turn of its loop
WalkStep ==
    /\ WalkAsleep
    /\ \E failAt \in WalkFails(walk.fn) :
         walk' = StepOver(WalkTurn(walk, disk, failAt))
    /\ UNCHANGED <<engine, client, sock, call, notif>>

\* the paths notifications come for: an indexed file, a path two levels
\* beneath an indexed directory, one with no indexed ancestor, '.', '..' and ''
ParentArgs ==
    {<<"d", "b">>, <<"d", "n", "m">>, <<"n", "m">>, <<".">>, <<"..">>, <<>>}

\* what happens to the disk meanwhile: the first base path goes, or d does
ParentEdits == {<< <<"b1">>, Absent >>, << <<"b1", "d">>, Absent >>}

\* the daemon with its worker, the whitelist set, the disk changing and
\* notifications coming in one by one
NextParents ==
    \/ WorkerStart
    \/ WorkerStep
    \/ \E wl \in WhitelistArgs : SetWhitelist(wl)
    \/ \E d \in ParentEdits : DiskSet(d[1], d[2])
    \/ \E p \in ParentArgs : Notify(p)

SpecParents == Init /\ [][NextParents]_vars

\* the paths clients ask a refresh of: inside the base path, at it, above it,
\* and in the directory /b1x beside it
PathArgs ==
    {<<"d", "b">>, <<"d", "..", "a">>, <<".">>, <<"..">>, <<"..", "b2">>,
     <<"..", "b1x">>, <<"..", "b1x", "e">>, <<"d", "..", "..", "b1">>}

\* the daemon with its worker and the whitelist, asked to refresh paths
NextPaths ==
    \/ WorkerStart
    \/ WorkerStep
    \/ \E wl \in WhitelistArgs : SetWhitelist(wl)
    \/ \E p \in PathArgs : RefreshPath(p)

SpecPaths == Init /\ [][NextPaths]_vars

\* a disk with a symbolic link to the directory /x at /b1/a and a
\* blacklisted directory /b1/k
DiskWalk ==
    [n \in Nodes |->
       IF n = <<"b1", "a">> THEN Link
       ELSE IF n = <<"b1", "k">> THEN Dir
       ELSE Disk0[n]]

\* the walks: fn, the base path _fnwalk_checker is bound to, and the root
WalkArgs ==
    {<<"checker", <<"b1">>, <<"b1">> >>,       \* _update_db('.')
     <<"checker", <<"b1">>, <<"b1", "d">> >>,  \* _update_db('d'), _remove_from_fs
     <<"checker", <<"b1">>, <<"b1", "a">> >>,  \* _update_db('a')
     <<"all", <<>>, <<"b1">> >>,               \* get_path_size('/b1')
     <<"all", <<>>, <<"x">> >>,                \* _validate_transfer('/x', ...)
     <<"all", <<>>, <<"b1", "d", "b">> >>}     \* _validate_transfer of a file

\* what happens to the disk during a walk
WalkEdits ==
    {<< <<"b1", "d">>, Absent >>, << <<"b1", "d">>, File(1) >>,
     << <<"b1", "a">>, File(1) >>, << <<"b1", "k">>, Absent >>}

\* walks of the disk by the generator, consumed by their caller, and by the
\* worker's jobs, with the disk changing meanwhile
NextWalk ==
    \/ WorkerStart
    \/ WorkerStep
    \/ \E a \in WalkArgs : WalkBegin(a[1], a[2], a[3])
    \/ WalkStep
    \/ \E d \in WalkEdits : DiskSet(d[1], d[2])

\* gevent resumes a greenlet that sleeps: weak fairness of WalkStep and of
\* the worker's step, each with its guard as the enabling condition
SpecWalk ==
    /\ Started(DiskWalk) /\ [][NextWalk]_vars
    /\ ([]<>~WalkAsleep \/ []<><<WalkStep>>_vars)
    /\ ([]<>~WorkerAsleep \/ []<><<WorkerStep>>_vars)

\* a disk with bundles waiting: under /b1 and /b2 an archive that holds the
\* file e, under /b1 one that is no zip file, and under /b2 one with a path
\* that leaves /b2
DiskBundles ==
    [n \in Nodes |->
       IF n \in {<<"b1", "bundles">>, <<"b2", "bundles">>} THEN Dir
       ELSE IF n \in {<<"b1", "bundles", "g.zip">>, <<"b1", "bundles", "q.zip">>,
                       <<"b2", "bundles", "g.zip">>, <<"b2", "bundles", "v.zip">>}
       THEN File(1)
       ELSE Disk0[n]]

\* a disk with the archive w.zip waiting under /b1 as well
DiskZip ==
    [n \in Nodes |->
       IF n = <<"b1", "bundles", "w.zip">> THEN File(1) ELSE DiskBundles[n]]

\* the longest batch of notifications
MaxBatch == 2

\* the notifications: one without a path, the path of an indexed file, and
\* the three archives
Notifications ==
    {[haspath |-> FALSE, path |-> <<>>]}
    \cup {[haspath |-> TRUE, path |-> p] :
             p \in {<<"d", "b">>, <<"bundles", "g.zip">>, <<"bundles", "q.zip">>,
                    <<"bundles", "v.zip">>}}

NotificationBatches == UNION {[1..n -> Notifications] : n \in 1..MaxBatch}

\* the daemon started on a disk with bundles, its worker, full refreshes, the
\* whitelist and the notification listener
NextBundles ==
    \/ WorkerStart
    \/ WorkerStep
    \/ Refresh
    \/ \E wl \in WhitelistArgs : SetWhitelist(wl)
    \/ \E batch \in NotificationBatches : HandleNotifications(batch)

SpecBundles == Started(DiskBundles) /\ [][NextBundles]_vars

SpecZip == Started(DiskZip) /\ [][NextBundles]_vars

\* the paths refresh_path is called with: a file, its directory, a file at
\* the top, a blacklisted file and a path there is no file at when the
\* daemon starts
RefreshedArgs == {<<"d", "b">>, <<"d">>, <<"a">>, <<"k">>, <<"e">>}

\* what happens to the disk between two calls: a file or a directory is
\* deleted, a file is replaced by a symbolic link, a file appears
RefreshedEdits ==
    {<< <<"b1", "d", "b">>, Absent >>, << <<"b1", "d">>, Absent >>,
     << <<"b1", "a">>, Link >>, << <<"b1", "e">>, File(1) >>}

\* the disk changes while no job is queued or running
DiskSetIdle(n, e) ==
    /\ queue = <<>>
    /\ run["worker"].fn = "idle"
    /\ DiskSet(n, e)

NextRefreshed ==
    \/ WorkerStart
    \/ WorkerStep
    \/ \E p \in RefreshedArgs : RefreshPath(p)
    \/ \E d \in RefreshedEdits : DiskSetIdle(d[1], d[2])

\* the daemon under calls of refresh_path, the disk changing between the
\* calls only
SpecRefreshed == Init /\ [][NextRefreshed]_vars

\* the limits a client asks for
MaxLimit == 2

\* the daemon indexing (the refresh submitted at start and those asked for)
\* while a client draws the change events
NextEvents ==
    \/ WorkerStart
    \/ WorkerStep
    \/ Refresh
    \/ \E d \in DiskEdits : DiskSet(d[1], d[2])
    \/ \E limit \in 0..MaxLimit : ClientFetch(limit)
    \/ ClientConfirm

SpecEvents == Init /\ [][NextEvents]_vars

\* the longest document and the buff_size of both readers
MaxMsg == 4

BuffSize == 3

\* the documents: n bytes, none of them '\0', no two alike
Documents == {[i \in 1..n |-> i] : n \in 1..MaxMsg}

\* a client and the daemon's connection task on one connection after the
\* other
NextWire ==
    \/ \E message \in Documents : \E is_synchronous \in BOOLEAN :
            ClientSend(message, is_synchronous)
    \/ \E n \in 1..BuffSize : ServerRecv(n)
    \/ \E n \in 1..BuffSize : ServerRecvMore(n)
    \/ \E document \in Documents : ServerDispatch(document)
    \/ \E n \in 0..BuffSize : ClientRecv(n)
    \/ ClientClose

SpecWire == Init /\ [][NextWire]_vars

\* the lengths of the lists filter is called with, the positions of the
\* paths that have a row, and those paths
FilterLens == {0, 1, 999, 1000, 1999}

FilterPos == {1, 999, 1000}

FilterPaths == {<<"a">>, <<"d", "b">>}

\* the daemon indexing and its whitelist set while clients call filter
NextFilter ==
    \/ WorkerStart
    \/ WorkerStep
    \/ \E wl \in WhitelistArgs : SetWhitelist(wl)
    \/ \E n \in FilterLens : \E pos \in FilterPos : \E p \in FilterPaths :
            FilterCall(n, pos, p)
    \/ FilterDone

SpecFilter == Init /\ [][NextFilter]_vars

----------------------------------------------------------------------------
(* Properties *)

\* a step in which a job of the scheduler completes
JobCompletes ==
    /\ run'["worker"].fn = "idle"
    /\ Len(queue') < Len(queue) \/ run["worker"].fn # "idle"

\* the events a step adds to the change-event queue
Added == [i \in 1..(Len(events') - Len(events)) |-> events'[Len(events) + i]]

\* C1: at most one execution of the refresh / prune / update routines is in
\* progress at any time, whatever requests interleave and also when a remove
\* call raises
C1_SingleIndexingJob ==
    ~(run["worker"].fn # "idle" /\ run["client"].fn # "idle")

C3_RefreshIdempotent ==
    [][(calm.n >= 1 /\ calm'.n >= 1) => events' = events]_vars

\* the relative paths under base path b that a walk is to index: on disk, no
\* symbolic link, not blacklisted, and beneath such directories only
Indexable(dsk, b) ==
    {p \in RelNodes :
       \A n \in 1..Len(p) :
          /\ LKind(dsk, b \o SubSeq(p, 1, n)) \in
                IF n < Len(p) THEN {"dir"} ELSE {"dir", "file"}
          /\ ~IsBlacklisted(SubSeq(p, 1, n))}

\* a row carries the type and size found on disk under its base path
RowAsOnDisk(dsk, r) ==
    /\ r.base_path \in BaseSet
    /\ r.path \in Indexable(dsk, r.base_path)
    /\ r.type = LKind(dsk, r.base_path \o r.path)
    /\ r.size = IF r.type = "dir" THEN 0 ELSE dsk[r.base_path \o r.path].size

\* list_dir of the directory with row id id and path dir returns the
\* indexable children of dir
ListsChildren(cat, dsk, id, dir) ==
    {r.path : r \in {c \in cat : c.parent_id = id}}
      = {p \in UNION {Indexable(dsk, b) : b \in BaseSet} : Dirname(p) = dir}

\* C4: after a full refresh job completes with no disk change during it, the
\* catalog has a row for exactly the indexable paths on disk, each row has the
\* type and size found on disk, and list_dir of a directory returns exactly
\* its indexable children
C4_CatalogMatchesDisk ==
    calm.n >= 1 =>
        /\ {r.path : r \in catalog} = UNION {Indexable(disk, b) : b \in BaseSet}
        /\ \A r \in catalog : RowAsOnDisk(disk, r)
        /\ ListsChildren(catalog, disk, 0, <<>>)
        /\ \A d \in catalog : d.type = "dir" => ListsChildren(catalog, disk, d.id, d.path)

\* C5: when a Deleted event is put in the change-event queue, by prune or by
\* remove, the catalog has no row for the event's path
C5_DeletedRowGone == stale = {}

\* C6: for every Created event an update puts in the change-event queue there
\* is a row for its path right after that step, also when the store write of
\* the entry fails
C6_CreatedRowExists ==
    [][\A i \in 1..Len(Added) :
          Added[i].kind = "Created" => \E r \in catalog' : r.path = Added[i].src]_vars

\* C7: after any job of the scheduler completes no row has a path with a ".."
\* component or a leading "/" (a row's path is the result of os.path.relpath,
\* which never starts with "/")
C7_NoEscapingPath ==
    [][JobCompletes => \A r \in catalog' : ~HasDotDot(r.path)]_vars

\* the row of r's parent directory is there, under the same base path, with
\* the id r points at; or r lies at the top and points at the synthetic root
ParentOk(cat, r) ==
    \/ \E q \in cat : /\ q.path = Dirname(r.path)
                      /\ q.base_path = r.base_path
                      /\ q.id = r.parent_id
    \/ r.parent_id = 0 /\ Dirname(r.path) = <<>>

\* C8: after any job of the scheduler completes every row has its parent
\* directory's row under the same base_path and that row's id as parent_id, or
\* has parent_id 0 and no directory part in its path
C8_ParentRowExists ==
    [][JobCompletes => \A r \in catalog' : ParentOk(catalog', r)]_vars

\* C9: after any job of the scheduler completes no row has a base_path that
\* is not one of the configured base paths
C9_ConfiguredBase ==
    [][JobCompletes => \A r \in catalog' : r.base_path \in BaseSet]_vars

\* C10: no row of the catalog has a blacklisted relative path, whatever
\* directory a walk is rooted at
C10_NoBlacklistedRow == \A r \in catalog : ~IsBlacklisted(r.path)

\* a full refresh has completed over a disk that holds the blacklisted /b1/k
\* and has left rows in the catalog
C10_WalkedBlacklisted ==
    /\ calm.n >= 1
    /\ LKind(disk, <<"b1", "k">>) = "file"
    /\ catalog # {}

\* the paths the queries are asked about
QueryPaths == {<<".">>, <<"a">>, <<"d">>, <<"d", "b">>, <<"d", ".">>}

\* the rows one query about path q returns or acknowledges (list_dir,
\* list_descendants with and without count, filter, search, get_fso, exists,
\* is_dir, is_file); the synthetic root is no row
ShownFor(cat, wl, dsk, q) ==
    ListDir(cat, wl, dsk, q).rows
    \cup ListDescendants(cat, wl, dsk, q).rows
    \cup ListDescendants(cat, wl, dsk, q).counted
    \cup Filter(cat, wl, {q})
    \cup Search(cat, wl, dsk, q, FALSE)
    \cup Search(cat, wl, dsk, q, TRUE)
    \cup {r \in {GetFso(cat, wl, dsk, q), GetDir(cat, wl, dsk, q), GetFile(cat, wl, dsk, q)} :
            r \in cat}

Shown(cat, wl, dsk) == UNION {ShownFor(cat, wl, dsk, q) : q \in QueryPaths}

\* path equals an element of W or starts with an element of W followed by '/'
Under(W, path) == \E i \in 1..Len(W) : path = W[i] \/ Beneath(path, W[i])

\* with an empty whitelist every row is returned to a query that asks for it
NothingHidden(cat, wl, dsk) ==
    /\ \A r \in cat : r \in Filter(cat, wl, {r.path})
    /\ \A q \in QueryPaths :
          (q # ROOT_DIR_PATH /\ \E r \in cat : r.path = NormRel(q))
              => GetFso(cat, wl, dsk, q) \in cat

JobRuns == Len(queue') < Len(queue) \/ run["worker"].fn # "idle"

\* C12: while the whitelist is non-empty a job inserts or modifies rows, and
\* queues Created and Modified events, only for paths the whitelist lets
\* through; no row is written for a path outside the whitelist, be it a first
\* or a second one
C12_OnlyWhitelistedIndexed ==
    [][(JobRuns /\ whitelist # <<>>) =>
          /\ \A r \in catalog' \ catalog : IsWhitelisted(whitelist, r.path)
          /\ \A i \in 1..Len(Added) :
                Added[i].kind \in {"Created", "Modified"}
                    => IsWhitelisted(whitelist, Added[i].src)]_vars

\* path is a directory known to the catalog: the synthetic root, or the path
\* of a directory row the whitelist does not hide
KnownDirIds(cat, wl, path) ==
    IF NormRel(path) = ROOT_DIR_PATH THEN {0}
    ELSE {d.id : d \in {r \in cat : /\ r.path = NormRel(path)
                                    /\ r.type = "dir"
                                    /\ IsWhitelisted(wl, r.path)}}

\* C13: list_dir(path) returns ok = false if and only if path is no directory
\* known to the catalog (the synthetic root counts as known), and when ok is
\* true the stream is exactly the rows whose parent_id is that directory's
\* id (those the whitelist does not hide)
C13_ListDirExact ==
    \A q \in QueryPaths :
        /\ ListDir(catalog, whitelist, disk, q).ok
              <=> KnownDirIds(catalog, whitelist, q) # {}
        /\ ListDir(catalog, whitelist, disk, q).ok =>
              \E id \in KnownDirIds(catalog, whitelist, q) :
                  ListDir(catalog, whitelist, disk, q).rows
                      = {r \in catalog : r.parent_id = id /\ IsWhitelisted(whitelist, r.path)}

\* a step in which remove(p) returns (True, None) for a directory row p
RemovedDir ==
    /\ rm.pc = "walk"
    /\ rm.fso.type = "dir"
    /\ rm'.pc = "idle"
    /\ ret'.op = "remove" /\ ret'.ok

\* row r lies at p or beneath it
Within(r, p) == r.path = p \/ Beneath(r.path, p)

\* C14: after remove(p) returns (True, None) for an indexed directory p the
\* catalog has no row at p or beneath it, every other row is unchanged, and
\* list_dir(p) returns (False, [])
C14_RemoveFrame ==
    [][RemovedDir =>
          /\ \A r \in catalog' : ~Within(r, rm.fso.path)
          /\ {r \in catalog : ~Within(r, rm.fso.path)} = catalog'
          /\ ~ListDir(catalog', whitelist', disk', rm.fso.path).ok]_vars

\* C15: the Deleted events a successful remove of a directory publishes come
\* children before parent: the events of everything beneath a directory
\* precede the DirDeleted event of the directory
C15_ChildrenBeforeParent ==
    [][RemovedDir =>
          \A i, j \in 1..Len(Added) :
              (Added[j].is_dir /\ Beneath(Added[i].src, Added[j].src)) => i < j]_vars

\* the path transfer(a[1], a[2]) would write to: dest under the last base
\* path, or basename(src) inside it when it is a directory
Target(dsk, a) ==
    RealDst(dsk, AbsJoin(BasePaths[Len(BasePaths)], a[2]), Basename(Normalize(a[1])))

\* C16: transfer(src, dest) returns success = false whenever the destination
\* it would write to exists on disk already, be it basename(src) inside the
\* directory dest or the file dest itself, and then nothing on disk is moved
\* or overwritten
C16_CollisionRefused ==
    [][\A a \in TransferArgs :
          (Transfer(a[1], a[2]) /\ a[1] # <<>> /\ Exists(disk, Target(disk, a)))
              => ret'.op = "transfer" /\ ~ret'.ok /\ disk' = disk]_vars

\* the validation of transfer(a[1], a[2]) is to fail: the source is empty, is
\* missing on disk or is indexed already, the destination is no valid
\* internal path, or a destination path is over the length limit
MustRefuse(cat, wl, dsk, a) ==
    \/ a[1] = <<>>
    \/ ~Exists(dsk, Normalize(a[1]))
    \/ ExistsIndexed(cat, wl, dsk, a[1])
    \/ ~ValidatePath(wl, a[2]).valid
    \/ \E i \in 1..Len(WalkedFrom(dsk, Normalize(a[1]))) :
          ByteLen(Rebase(WalkedFrom(dsk, Normalize(a[1]))[i], Normalize(a[1]),
                         Target(dsk, a))) >= 32768

\* C17: when the validation of transfer fails, transfer returns
\* (False, message) and leaves the disk, the catalog, the event queue and the
\* job queue of the scheduler as they were
C17_RefusedUnchanged ==
    [][\A a \in TransferArgs :
          (Transfer(a[1], a[2]) /\ MustRefuse(catalog, whitelist, disk, a))
              => /\ ret'.op = "transfer" /\ ~ret'.ok /\ ret'.arity = 2 /\ ret'.msg # ""
                 /\ UNCHANGED <<disk, catalog, events, queue>>]_vars

\* a transfer to a destination that escapes the base path has been refused,
\* the catalog populated and an update job waiting
C17_DestinationRefused ==
    /\ ret.op = "transfer" /\ ~ret.ok
    /\ ret.msg = "Invalid transfer destination directory"
    /\ catalog # {}
    /\ queue # <<>>

\* the byte lengths of the destination paths of transfer(a[1], a[2]), one
\* per entry of the source tree
DestLens(dsk, a) ==
    {ByteLen(Rebase(WalkedFrom(dsk, Normalize(a[1]))[i], Normalize(a[1]), Target(dsk, a))) :
        i \in 1..Len(WalkedFrom(dsk, Normalize(a[1])))}

\* C18: the path length check of transfer lets a transfer through whose
\* longest destination path has exactly 32767 bytes and refuses one in which
\* an entry of the source tree gets a destination path of 32768 bytes or more
C18_LengthBoundary ==
    [][\A a \in TransferArgs :
          (/\ Transfer(a[1], a[2])
           /\ a[1] # <<>> /\ Exists(disk, Normalize(a[1]))
           /\ ValidatePath(whitelist, a[2]).valid)
              => /\ (\E n \in DestLens(disk, a) : n >= 32768)
                      => ~ret'.ok /\ disk' = disk
                 /\ (\A n \in DestLens(disk, a) : n <= 32767)
                      => ret'.msg # "exceeds path length limit"]_vars

\* the transfer of /x/m, whose destination path /b2/m has exactly 32767
\* bytes, has gone through
C18_LimitAccepted ==
    /\ ret.op = "transfer" /\ ret.ok
    /\ ByteLen(<<"b2", "m">>) = 32767
    /\ LKind(disk, <<"b2", "m">>) = "file"
    /\ LKind(disk, <<"x", "m">>) = "none"

\* the relative paths of what consolidate(a[1], a[2]) copies, as seen from
\* the sources
CopiedRels(dsk, a) ==
    {RelCopied(WalkAll(dsk, [i \in 1..Len(a[1]) |-> Normalize(a[1][i])]), a[1])[k] :
        k \in 1..Len(RelCopied(WalkAll(dsk, [i \in 1..Len(a[1]) |-> Normalize(a[1][i])]),
                               a[1]))}

\* get_fso(rel) returns an entry kept under one of the sources
RowUnder(cat, wl, dsk, rel, sources) ==
    /\ GetFso(cat, wl, dsk, rel) # None
    /\ \E i \in 1..Len(sources) :
          GetFso(cat, wl, dsk, rel).base_path = Normalize(sources[i])

\* C19: right when consolidate(sources, dest) returns, before any job it
\* submitted has run, get_fso(rel) returns an entry with base_path = dest for
\* every copied path rel that had a row under one of the sources
C19_RehomedAtReturn ==
    [][\A a \in ConsolidateArgs :
          (Consolidate(a[1], a[2]) /\ ret'.op = "consolidate" /\ ret'.arity = 3)
              => \A rel \in CopiedRels(disk, a) :
                    RowUnder(catalog, whitelist, disk, rel, a[1])
                        => /\ GetFso(catalog', whitelist', disk', rel) # None
                           /\ GetFso(catalog', whitelist', disk', rel).base_path
                                  = Normalize(a[2])]_vars

\* C20: whatever the call, consolidate returns a triple
\* (success, is_partial, message), is_partial true exactly when something
\* was copied and an error occurred, success true exactly when no error
\* occurred
C20_AlwaysTriple ==
    ret.op = "consolidate"
        => /\ ret.arity = 3
           /\ ret.partial <=> (ret.copied /\ ret.errors)
           /\ ret.ok <=> ~ret.errors

\* the moved target and every indexable entry beneath it have a row under the
\* last base path
TargetIndexed(cat, dsk, dst) ==
    \A p \in Indexable(dsk, BasePaths[Len(BasePaths)]) :
        (\/ p = RelPath(dst, BasePaths[Len(BasePaths)])
         \/ Beneath(p, RelPath(dst, BasePaths[Len(BasePaths)])))
            => \E r \in cat : r.path = p /\ r.base_path = BasePaths[Len(BasePaths)]

\* the last call was a transfer that returned success, the jobs submitted up
\* to it have completed, no write to the store has failed and nothing else
\* has changed the disk since
TransferSettled(r, q, w, h, d, f, x) ==
    /\ r.op = "transfer" /\ r.ok
    /\ q = <<>> /\ w.fn = "idle" /\ ~h
    /\ d = x.dchg /\ f = x.fails

Fetches == client.pc = "idle" /\ client'.pc = "fetched"

Confirms == client.pc = "fetched" /\ client'.pc = "idle"

C28_NothingLost ==
    [][Confirms =>
          \A i \in 1..(Len(events) - Len(events')) :
              i <= Len(client.got) /\ events[i] = client.got[i]]_vars

\* the queries search is asked: no word at all, one word, two words
SearchQueries == {<<>>, <<"a">>, <<"b">>, <<"d">>, <<"a d">>, <<"d", "b">>}

\* word is part of name; the whole name when whole is set
Matches(name, word, whole) == IF whole THEN name = word ELSE NameHas(name, word)

\* the rows the whitelist lets through whose name matches one word at least
MatchingRows(cat, wl, words, whole) ==
    {r \in cat : /\ IsWhitelisted(wl, r.path)
                 /\ \E i \in 1..Len(words) : Matches(Basename(r.path), words[i], whole)}

\* C23: when the query is not an indexed directory, search returns exactly the
\* rows whose name matches at least one whitespace-separated word of the query
\* (part of the name, or the whole name with whole_words), also for a query
\* that has no word; no row that matches none of the words is returned
C23_SearchExact ==
    \A q \in SearchQueries : \A whole \in BOOLEAN :
        ~ListDir(catalog, whitelist, disk, q).ok
            => Search(catalog, whitelist, disk, q, whole)
                   = MatchingRows(catalog, whitelist, QueryWords(q), whole)

\* the rows of the catalog whose path is in the list at one of the positions
\* from lo to hi
RowsIn(cat, paths, lo, hi) == {r \in cat : \E j \in lo..hi : paths[j] = r.path}

\* the batches are consecutive, of 1 to 999 paths, and cover the n paths: the
\* first starts at index 0, each next one where the one before ends
Consecutive(batches, n) ==
    /\ \A k \in 1..Len(batches) :
          /\ batches[k].len \in 1..999
          /\ batches[k].i = IF k = 1 THEN 0 ELSE batches[k - 1].i + batches[k - 1].len
    /\ n = IF batches = <<>> THEN 0
           ELSE batches[Len(batches)].i + batches[Len(batches)].len

\* q is n / 999 rounded up
CeilOf(q, n) == q * 999 >= n /\ (q - 1) * 999 < n

\* the answer ans of filter to the list of n paths with path p at pos has
\* consecutive batches, one query for each, and ceil(n/999) of them
BatchedRight(ans, n) ==
    /\ Consecutive(ans.batches, n)
    /\ CeilOf(Len(ans.batches), n)
    /\ Len(ans.rows) = Len(ans.batches)

\* C24 as stated: filter(paths) splits the list into consecutive batches of
\* at most 999 paths, each path in exactly one batch, issues one query per
\* batch (ceil(n/999) queries, none for the empty list) and returns the
\* concatenation of the batch results: every row whose path is in the input
C24_FilterAllRows ==
    [][call'.pc = "returned" /\ call.pc = "idle" =>
          /\ BatchedRight(call', call'.paths[1])
          /\ \A l \in {PathList(call'.paths[1], call'.paths[2], call'.paths[3])} :
                UNION {call'.rows[k] : k \in 1..Len(call'.rows)}
                    = RowsIn(catalog, l, 1, Len(l))]_vars

\* C24, amended: as above, and the rows returned are those of the batch
\* results that the whitelist lets through: every row whose path is in the
\* input and is whitelisted, batch by batch
C24_FilterBatched ==
    [][call'.pc = "returned" /\ call.pc = "idle" =>
          /\ BatchedRight(call', call'.paths[1])
          /\ \A l \in {PathList(call'.paths[1], call'.paths[2], call'.paths[3])} :
                \A k \in 1..Len(call'.rows) :
                    call'.rows[k] =
                        {r \in RowsIn(catalog, l, call'.batches[k].i + 1,
                                      call'.batches[k].i + call'.batches[k].len) :
                            IsWhitelisted(whitelist, r.path)}]_vars

\* a list of 1999 paths came back in three batches, a row in the second
C24_ThreeBatches ==
    /\ call.pc = "returned"
    /\ call.paths[1] = 1999
    /\ Len(call.batches) = 3
    /\ call.rows[1] = {} /\ call.rows[2] # {}

\* C25: messages are NUL-framed in both directions and survive the round
\* trip: every request and every response written to the socket ends with a
\* NUL byte, and the reader on the other side returns exactly the bytes
\* before the NUL, whatever the length and the split into recv chunks
C25_NulFramed ==
    /\ sock.reqw # <<>> =>
          sock.reqw[Len(sock.reqw)] = NUL /\ DropLast(sock.reqw) = sock.request
    /\ sock.respw # <<>> =>
          sock.respw[Len(sock.respw)] = NUL /\ DropLast(sock.respw) = sock.response
    /\ sock.spc # "raised"
    /\ sock.spc \in {"read", "closed"} => sock.got = sock.request
    /\ sock.cpc = "returned" /\ sock.respw # <<>> => sock.result = sock.response

\* C26, the synchronous half: when the connection of a well-formed
\* synchronous request is closed, its command has been executed and its
\* response written
C26_SyncDispatched ==
    sock.closed /\ sock.sync => sock.executed /\ sock.respw # <<>>

\* C27: every job submitted to the scheduler is executed in the end when the
\* worker is scheduled fairly, the jobs are taken one at a time and in the
\* order submitted, and a job that raises leaves the worker ready for the
\* jobs behind it
C27_JobsRun ==
    /\ []<>(queue = <<>> /\ run["worker"].fn = "idle")
    /\ [][Len(queue') < Len(queue) =>
             run["worker"].fn = "idle" /\ queue' = Tail(queue)]_vars

\* a job has raised with another job waiting behind it
C27_RaisedJobsBehind ==
    /\ run["worker"].raised
    /\ queue # <<>>
    /\ ~hung

\* the archive at path cannot be extracted
BrokenArchive(path) == Basename(path) \in {"q.zip", "v.zip"}

\* the i-th notification of the batch was handled with a failure: an
\* exception, or a bundle whose extraction failed
FailedAt(nt, i) ==
    \/ ~nt.batch[i].haspath
    \/ nt.log[i].bundle /\ BrokenArchive(nt.batch[i].path)

\* the notifications of the batch that have an update job scheduled
Scheduled(nt) == {i \in 1..Len(nt.log) : nt.log[i].kind = "scheduled"}

\* C30: a batch of notifications is handled to its end whatever fails in it:
\* an exception or a failed extraction at one notification leaves the later
\* ones handled, and every notification handled without failure has exactly
\* one update job scheduled
C30_BatchIsolated ==
    [][notif' # notif =>
          /\ Len(notif'.log) = Len(notif'.batch)
          /\ \A i \in 1..Len(notif'.log) :
                (i \in Scheduled(notif')) <=> ~FailedAt(notif', i)
          /\ Len(queue') = Len(queue) + Cardinality(Scheduled(notif'))
          /\ \A k \in (Len(queue) + 1)..Len(queue') : queue'[k].fn = "update"]_vars

\* the archives on the disk that _extract_bundles would extract
GoodBundles(dsk) ==
    {n \in Nodes :
        \E b \in BaseSet :
            /\ Beneath(n, b)
            /\ is_bundle(dsk, b, RelPath(n, b))
            /\ extract_zip_bundle(dsk, n, b).success}

\* the files the archives hold, as paths relative to a base path
BundledFiles == {<<"e">>}

\* every bundled file that is on the disk has its row
ExtractedIndexed(cat, dsk) ==
    \A p \in BundledFiles :
        (\E b \in BaseSet : Exists(dsk, AbsJoin(b, p)))
            => \E r \in cat : r.path = p /\ Exists(dsk, AbsJoin(r.base_path, p))

\* the events a step has added
AddedEvents(evs, evs1) == {evs1[i] : i \in (Len(evs) + 1)..Len(evs1)}

\* C22: a full refresh prunes, then extracts the bundles, then updates: once
\* the bundles are being extracted no row is pruned any more, the update walk
\* runs only when no extractable bundle is left, no row is written while
\* bundles are still to be extracted, and when the refresh ends (no write to
\* the store having failed) the files that came out of the bundles have
\* their rows
C22_PruneExtractUpdate ==
    [][/\ run["worker"].fn \in {"extract", "refresh"}
            => \A ev \in AddedEvents(events, events') : ev.kind # "Deleted"
       /\ run'["worker"].fn = "refresh" => GoodBundles(disk') = {}
       /\ run'["worker"].fn = "extract" => catalog' \subseteq catalog
       /\ (run["worker"].fn = "refresh" /\ run'["worker"] = Idle /\ fails' = 0)
            => ExtractedIndexed(catalog', disk')]_vars

\* a refresh has extracted the bundles itself and indexed what they held
C22_BundleIndexed ==
    /\ notif = NoBatch
    /\ run["worker"].fn = "idle" /\ queue = <<>>
    /\ ~Exists(disk, <<"b2", "bundles", "g.zip">>)
    /\ Exists(disk, <<"b2", "bundles", "v.zip">>)
    /\ \E r \in catalog : r.path = <<"e">>
    /\ \E i \in 1..Len(events) : events[i].kind = "Created" /\ events[i].src = <<"e">>

\* path itself and the directories above it, as dirname yields them
SelfAndAbove(path) == {SubSeq(path, 1, k) : k \in 1..Len(path)}

\* those of them whose parent exists() finds
ParentFound(cat, wl, dsk, path) ==
    {c \in SelfAndAbove(path) : ExistsIndexed(cat, wl, dsk, ParentOf(c))}

\* the longest path of a set of paths
Longest(S) == CHOOSE c \in S : \A o \in S : Len(o) <= Len(c)

\* the path of the update job a notification has just submitted
Submitted(q) == q[Len(q)].src

C32_Returns == ~hung

\* the walk as it was before a step: a step that begins a walk starts anew
WalkBefore == IF walk.pc = "asleep" THEN walk ELSE NoWalk

\* what a step of the walk has added to a sequence of the walk
NewOf(old, new) == SubSeq(new, Len(old) + 1, Len(new))

\* the paths of the records of sq whose res is among rs
PathsOf(sq, rs) == {sq[i].path : i \in {j \in 1..Len(sq) : sq[j].res \in rs}}

\* the elements of a sequence
Elems(sq) == {sq[i] : i \in 1..Len(sq)}

\* sq is the start of full, all of it unless stopped
StartOf(sq, full, stopped) ==
    /\ Len(sq) <= Len(full)
    /\ \A i \in 1..Len(sq) : sq[i] = full[i]
    /\ stopped \/ Len(sq) = Len(full)

\* the calls of fn a step has added, but for the call on the root, which is
\* the first call of a walk
CallsBelow(w0, w1) ==
    IF w0.calls = <<>> THEN Tail(w1.calls) ELSE NewOf(w0.calls, w1.calls)

\* the paths of the calls that fn passed, in their order
PassedPaths(calls) ==
    [j \in 1..Len(SelectSeq(calls, LAMBDA c : c.res = "passed"))
       |-> SelectSeq(calls, LAMBDA c : c.res = "passed")[j].path]

\* what every step of a walk does: w0 the walk before, w1 after, calls the new
\* calls of fn without that on the root, scans the directories taken off the
\* queue.  fn is called on every entry of the directory listed, up to a call
\* that raises; the entries yielded are those fn passed, in that order; they
\* lie in the directory listed in this step
WalkStepChecked(w0, w1, dsk, calls, scans) ==
    /\ Len(scans) <= 1
    /\ w1.calls # <<>> /\ w1.calls[1].path = w1.root
    /\ \A i \in 1..Len(calls) :
          /\ calls[i].res = "passed" => WalkFn(dsk, w1, calls[i].path)
          /\ calls[i].res = "refused" => ~WalkFn(dsk, w1, calls[i].path)
          /\ calls[i].res = "raised" => i = Len(calls) /\ ~w1.ok
    /\ (scans = <<>> \/ scans[1].res = "raised") => calls = <<>>
    /\ \A i \in 1..Len(scans) :
          scans[i].res = "listed" =>
              StartOf([j \in 1..Len(calls) |-> calls[j].path],
                      Scandir(dsk, scans[i].path), ~w1.ok)
    /\ w1.out = PassedPaths(w1.calls)
    /\ StartOf(w0.out, w1.out, TRUE)
    /\ \A e \in Elems(NewOf(w0.out, w1.out)) :
          e = w1.root \/ (scans # <<>> /\ Dirname(e) = scans[1].path)

\* C33 as stated: the walker calls fn on every entry it comes upon, yields
\* exactly those that pass, and goes down only into directories that pass, the
\* root of the walk included; an entry is yielded after its directory was
\* come upon
C33_DescendsPassedOnly ==
    [][walk' # walk =>
          \A w0 \in {WalkBefore} :
              /\ WalkStepChecked(w0, walk', disk,
                                 CallsBelow(w0, walk'), NewOf(w0.scans, walk'.scans))
              /\ \A sc \in Elems(NewOf(w0.scans, walk'.scans)) :
                    sc.path \in PathsOf(walk'.calls, {"passed"})]_vars

\* C33: the walker calls fn on every entry it comes upon, yields exactly
\* those that pass, and goes down only into directories that pass and into the
\* root of the walk, which it goes down into whether fn passes it or not; an
\* entry is yielded after its directory was come upon
C33_DescendsPassedOrRoot ==
    [][walk' # walk =>
          \A w0 \in {WalkBefore} :
              /\ WalkStepChecked(w0, walk', disk,
                                 CallsBelow(w0, walk'), NewOf(w0.scans, walk'.scans))
              /\ \A sc \in Elems(NewOf(w0.scans, walk'.scans)) :
                    \/ sc.path = walk'.root
                    \/ sc.path \in PathsOf(walk'.calls, {"passed"})]_vars

\* the walk of /b1 under _fnwalk_checker is over: the root was refused and
\* listed, the blacklisted directory k was refused and not listed, d was
\* passed and listed
C33_RootRefusedListed ==
    /\ walk.pc = "done" /\ walk.ok /\ walk.fn = "checker" /\ walk.root = <<"b1">>
    /\ <<"b1">> \in PathsOf(walk.calls, {"refused"})
    /\ <<"b1", "k">> \in PathsOf(walk.calls, {"refused"})
    /\ PathsOf(walk.scans, {"listed"}) = {<<"b1">>, <<"b1", "d">>}
    /\ walk.out = << <<"b1", "d">>, <<"b1", "d", "b">> >>

\* path is a symbolic link or lies beneath one
ThroughLink(dsk, path) ==
    \E k \in 1..Len(path) : LKind(dsk, SubSeq(path, 1, k)) = "link"

\* C34: the walker never follows a symbolic link, whatever the predicate: it
\* lists no directory that is reached through a symbolic link
C34_NoLinkFollowed ==
    [][walk' # walk =>
          \A sc \in Elems(NewOf(WalkBefore.scans, walk'.scans)) :
              sc.res = "listed" => ~ThroughLink(disk, sc.path)]_vars

\* C35: a walk of a finite tree comes to its end; what fn or a directory scan
\* raises ends the sequence there and is not raised to the caller: the
\* entries yielded before stay yielded, the job that consumes the walk does
\* not raise, and the rows it has written stay in the catalog
C35_WalkEnds ==
    /\ [](WalkAsleep => <>(walk.pc = "done"))
    /\ [][/\ (walk' # walk /\ ~walk'.ok) =>
                /\ walk'.pc = "done"
                /\ StartOf(WalkBefore.out, walk'.out, TRUE)
                /\ walk'.out = PassedPaths(walk'.calls)
          /\ (run["worker"].fn \in {"refresh", "update"} /\ run' # run) =>
                /\ ~run'["worker"].raised
                /\ \A r \in catalog : \E r2 \in catalog' : r2.id = r.id]_vars

\* the directory d went while a walk and a refresh had it on their queues:
\* both have ended, with what they had yielded and written before
C35_ScanRaised ==
    /\ walk.pc = "done" /\ ~walk.ok
    /\ walk.out = << <<"b1", "d">> >>
    /\ walk.scans[Len(walk.scans)] = [path |-> <<"b1", "d">>, res |-> "raised"]
    /\ run["worker"] = Idle /\ queue = <<>>
    /\ \E r \in catalog : r.path = <<"d">>
    /\ ~\E r \in catalog : r.path = <<"d", "b">>

\* the jobs a request has just submitted
JobsAdded(q, q1) == {q1[i] : i \in (Len(q) + 1)..Len(q1)}

\* the absolute path is the base path or lies beneath it, as a directory
InsideOf(full_path, base_path) == full_path = base_path \/ Beneath(full_path, base_path)

\* C36: _validate_path keeps paths within the first base path: it is valid
\* only for a path that, made absolute, is base[0] or lies beneath it, and the
\* relative path it returns has no '..' (seen at refresh_path, which submits
\* its jobs for the path returned if and only if the path is valid)
C36_Confined ==
    [][\A p \in PathArgs :
          (RefreshPath(p) /\ queue' # queue) =>
              /\ InsideOf(AbsJoin(BasePaths[1], p), BasePaths[1])
              /\ \A job \in JobsAdded(queue, queue') : ~HasDotDot(job.src)]_vars

\* the archives that may lie in bundles_dir
Archives == {"g.zip", "q.zip", "v.zip", "w.zip"}

\* C37: the extraction of a bundle succeeds, the bundle removed from disk,
\* only if every member of it, joined to the base path and normalized, is the
\* base path or lies beneath it as a directory
C37_ExtractsInside ==
    [][\A b \in BaseSet : \A name \in Archives :
          (/\ Exists(disk, b \o BundlesDir \o <<name>>)
           /\ ~Exists(disk', b \o BundlesDir \o <<name>>))
              => \A m \in Elems(Namelist(name)) : InsideOf(AbsJoin(b, m), b)]_vars

\* the step with which the worker ends, without an exception, the _update_db
\* job of refresh_path(p), the last of the jobs that call scheduled
UpdateJobEnds(p) ==
    /\ run'["worker"] = Idle
    /\ \/ /\ WorkerReady
          /\ Head(queue) \in {Job("update", p, <<>>, <<>>), Job("update", p, <<>>, BasePaths)}
          /\ queue' = Tail(queue)
       \/ /\ WorkerAsleep
          /\ run["worker"].fn = "update" /\ run["worker"].src = p

\* p is on disk under some base path and a walk is to index it
IndexableOnDisk(dsk, p) == \E b \in BaseSet : p \in Indexable(dsk, b)

HasRow(cat, p) == \E r \in cat : r.path = p

\* C38: when the jobs refresh_path(p) scheduled are over, the disk not
\* changed since the call and no statement of the store failed, the catalog
\* has a row for p if and only if p exists on disk and is indexable
C38_RowIffIndexable ==
    [][\A p \in RefreshedArgs :
          (UpdateJobEnds(p) /\ fails' = 0)
              => (HasRow(catalog', p) <=> IndexableOnDisk(disk', p))]_vars

====
